---- MODULE Spec2Model ----
(***************************************************************************)
(* Model of the modal editing engine of MarkMark:                          *)
(*   core/helix_mode.py  TextObjectFinder, MultiCursorManager,             *)
(*                       SurroundManager, HelixFeatures                    *)
(*   core/vim_mode.py    VimMode                                           *)
(* Python strings are sequences of one-character strings; Python offsets   *)
(* are 0-based, so content[i] in the source is content[i + 1] here.        *)
(***************************************************************************)
EXTENDS Integers, Sequences, FiniteSets, TLC

VARIABLES
    mode,              \* VimMode.mode
    previous_mode,     \* VimMode.previous_mode
    count_buffer,      \* VimMode.count_buffer
    operator_pending,  \* VimMode.operator_pending (<<>> is None, <<k>> is k)
    key_sequence,      \* VimMode.key_sequence
    command_state,     \* VimMode.command_state
    registers,         \* VimMode.registers
    macro_recording,   \* VimMode.macro_recording (<<>> is None, <<r>> is r)
    macro_buffer,      \* VimMode.macro_buffer
    macros,            \* VimMode.macros
    ret,               \* what the last handle_key call returned (or raised)
    trace,             \* the calls made on the engine since construction
    script,            \* keys the host still has to type (command-line sessions)
    content,           \* the host's text snapshot
    selections,        \* MultiCursorManager.selections
    cursor_pos,        \* argument of a TextObjectFinder / SurroundManager call
    obj_type,          \* argument of a TextObjectFinder / SurroundManager call
    inner,             \* argument of a TextObjectFinder call
    result,            \* what the last helix_mode call returned (or raised)
    calls,             \* the number of calls made on the MultiCursorManager
    last_call,         \* the MultiCursorManager method called last
    selections_before  \* MultiCursorManager.selections before the last call

vars == <<mode, previous_mode, count_buffer, operator_pending, key_sequence,
          command_state, registers, macro_recording, macro_buffer, macros, ret, trace, script, content, selections,
          cursor_pos, obj_type, inner, result, calls, last_call, selections_before>>

\* what no key handler and no mode change touches
storeVars == <<registers, macro_recording, macro_buffer, macros>>

vimVars == <<mode, previous_mode, count_buffer, operator_pending, key_sequence,
             command_state, registers, macro_recording, macro_buffer, macros,
             ret, trace, script>>

helixVars == <<content, selections, cursor_pos, obj_type, inner, result, calls,
               last_call, selections_before>>

(***************************************************************************)
(* Bounds of the model.                                                    *)
(***************************************************************************)
MaxLen == 4        \* longest text handed to find_object

(***************************************************************************)
(* Values.                                                                 *)
(***************************************************************************)
None == [kind |-> "None"]
Raise(e) == [kind |-> "Raise", exc |-> e]
Range(s, e) == [kind |-> "Range", start |-> s, end |-> e]
Pending == [kind |-> "Pending"]

Min(a, b) == IF a <= b THEN a ELSE b
Max(a, b) == IF a >= b THEN a ELSE b

\* All sequences over A of length at most n.
Texts(A, n) == UNION {[1..k -> A] : k \in 0..n}

(***************************************************************************)
(* Python string primitives.                                               *)
(***************************************************************************)
\* s[a:b] with Python's clamping and negative offsets.
PyNorm(s, x) == IF x < 0 THEN Max(x + Len(s), 0) ELSE Min(x, Len(s))
PySlice(s, a, b) ==
    LET lo == PyNorm(s, a)
        hi == PyNorm(s, b)
    IN  IF lo >= hi THEN <<>> ELSE SubSeq(s, lo + 1, hi)

\* s[i] is defined for -len(s) <= i < len(s); otherwise IndexError.
PyIndexOk(s, i) == -Len(s) <= i /\ i < Len(s)
PyAt(s, i) == IF i < 0 THEN s[i + Len(s) + 1] ELSE s[i + 1]

\* s.find(c, lo) and s.rfind(c, 0, hi) for a one-character c; -1 when absent.
PyFind(s, c, lo) ==
    LET from == PyNorm(s, lo)
        hits == {i \in from..(Len(s) - 1) : s[i + 1] = c}
    IN  IF hits = {} THEN -1 ELSE CHOOSE i \in hits : \A j \in hits : i <= j
PyRFind(s, c, hi) ==
    LET to == PyNorm(s, hi)
        hits == {i \in 0..(to - 1) : s[i + 1] = c}
    IN  IF hits = {} THEN -1 ELSE CHOOSE i \in hits : \A j \in hits : i >= j

Lower == {"a","b","c","d","e","f","g","h","i","j","k","l","m",
          "n","o","p","q","r","s","t","u","v","w","x","y","z"}
Upper == {"A","B","C","D","E","F","G","H","I","J","K","L","M",
          "N","O","P","Q","R","S","T","U","V","W","X","Y","Z"}
Digits == {"0","1","2","3","4","5","6","7","8","9"}
IsSpace(c) == c \in {" ", "\n", "\t"}             \* str.isspace
IsAlnum(c) == c \in Lower \cup Upper \cup Digits  \* str.isalnum
IsDigit(c) == c \in Digits                        \* str.isdigit
IsWordChar(c) == IsAlnum(c) \/ c = "_"            \* regex \w

\* The character classes the source's patterns and loops test.
CharIs(c, class) ==
    CASE class = "word" -> IsWordChar(c)
      [] class = "digit" -> IsDigit(c)
      [] class = "space" -> IsSpace(c)
      [] class = "nonspace" -> ~IsSpace(c)
\* The length of the longest prefix of s whose characters are of the class.
RECURSIVE RunLen(_, _)
RunLen(s, class) ==
    IF s # <<>> /\ CharIs(s[1], class) THEN 1 + RunLen(Tail(s), class) ELSE 0
Drop(s, n) == SubSeq(s, n + 1, Len(s))

(***************************************************************************)
(* TextObjectFinder                                                        *)
(***************************************************************************)
\* The backtick character, which a TLA+ string cannot hold.
Backtick == "BACKTICK"

\* The keys of TEXT_OBJECTS and, per key, its match_balanced flag.
TEXT_OBJECTS ==
    [k \in {"(", ")", "[", "]", "{", "}", "<", ">", "\"", "'", Backtick,
            "w", "W", "s", "p", "f", "c", "t", "i", "h", "l", "k"} |->
        k \in {"(", ")", "[", "]", "{", "}", "<", ">", "f", "c", "t", "l"}]

pairs == [c \in {"(", "[", "{", ")", "]", "}"} |->
            CASE c = "(" -> ")" [] c = "[" -> "]" [] c = "{" -> "}"
              [] c = ")" -> "(" [] c = "]" -> "[" [] c = "}" -> "{"]

OpenCharOf(pair_char) ==
    IF pair_char \in {"(", "[", "{"} THEN pair_char
    ELSE IF pair_char \in DOMAIN pairs THEN pairs[pair_char] ELSE pair_char
CloseCharOf(pair_char) ==
    LET o == OpenCharOf(pair_char)
    IN  IF o \in DOMAIN pairs THEN pairs[o] ELSE o

\* The backward loop of _find_balanced_pair: the start found, -1 when the loop
\* ends without one, -2 when content[i] raises IndexError.
RECURSIVE BalancedBackward(_, _, _, _, _, _)
BalancedBackward(text, pos, i, depth, open_char, close_char) ==
    IF i < 0 THEN -1
    ELSE IF ~PyIndexOk(text, i) THEN -2
    ELSE IF PyAt(text, i) = close_char /\ i # pos
         THEN BalancedBackward(text, pos, i - 1, depth + 1, open_char, close_char)
    ELSE IF PyAt(text, i) = open_char
         THEN IF depth = 0 THEN i
              ELSE BalancedBackward(text, pos, i - 1, depth - 1, open_char, close_char)
    ELSE BalancedBackward(text, pos, i - 1, depth, open_char, close_char)

\* A forward scan that stops at the first close character whatever the depth.
FirstCloseForward(text, i, depth, open_char, close_char) ==
    PyFind(text, close_char, i)

\* The forward loop of _find_balanced_pair: the end found, or -1.
RECURSIVE BalancedForward(_, _, _, _, _)
BalancedForward(text, i, depth, open_char, close_char) ==
    IF i >= Len(text) THEN -1
    ELSE IF PyAt(text, i) = open_char
         THEN BalancedForward(text, i + 1, depth + 1, open_char, close_char)
    ELSE IF PyAt(text, i) = close_char
         THEN IF depth - 1 = 0 THEN i
              ELSE BalancedForward(text, i + 1, depth - 1, open_char, close_char)
    ELSE BalancedForward(text, i + 1, depth, open_char, close_char)

find_balanced_pair(text, pos, pair_char, inn) ==
    LET open_char == OpenCharOf(pair_char)
        close_char == CloseCharOf(pair_char)
        start == BalancedBackward(text, pos, pos, 0, open_char, close_char)
        end == BalancedForward(text, start, 0, open_char, close_char)
    IN  IF start = -2 THEN Raise("IndexError")
        ELSE IF start = -1 THEN None
        ELSE IF end = -1 THEN None
        ELSE IF inn THEN Range(start + 1, end)
        ELSE Range(start, end + 1)

\* A backward scan that takes escaped quotes too.
AnyQuoteBackward(text, i, quote) ==
    IF i >= Len(text) THEN -2 ELSE PyRFind(text, quote, i + 1)

\* The backward loop of _find_quote: start, -1, or -2 on IndexError.
RECURSIVE QuoteBackward(_, _, _)
QuoteBackward(text, i, quote) ==
    IF i < 0 THEN -1
    ELSE IF ~PyIndexOk(text, i) THEN -2
    ELSE IF PyAt(text, i) = quote
         THEN IF i > 0 /\ PyAt(text, i - 1) = "\\"
              THEN QuoteBackward(text, i - 1, quote)
              ELSE i
    ELSE QuoteBackward(text, i - 1, quote)

\* The forward loop of _find_quote: end, or -1.
RECURSIVE QuoteForward(_, _, _)
QuoteForward(text, i, quote) ==
    IF i >= Len(text) THEN -1
    ELSE IF PyAt(text, i) = quote /\ PyAt(text, i - 1) # "\\" THEN i
    ELSE QuoteForward(text, i + 1, quote)

find_quote(text, pos, quote, inn) ==
    LET start == QuoteBackward(text, pos, quote)
        end == QuoteForward(text, start + 1, quote)
    IN  IF start = -2 THEN Raise("IndexError")
        ELSE IF start = -1 THEN None
        ELSE IF end = -1 THEN None
        ELSE IF inn THEN Range(start + 1, end)
        ELSE Range(start, end + 1)

RECURSIVE WordStart(_, _, _)
WordStart(text, start, big_word) ==
    IF start > 0 /\ (IF big_word THEN ~IsSpace(PyAt(text, start - 1))
                                 ELSE IsWordChar(PyAt(text, start - 1)))
    THEN WordStart(text, start - 1, big_word)
    ELSE start
RECURSIVE WordEnd(_, _, _)
WordEnd(text, end, big_word) ==
    IF end < Len(text) /\ (IF big_word THEN ~IsSpace(PyAt(text, end))
                                       ELSE IsWordChar(PyAt(text, end)))
    THEN WordEnd(text, end + 1, big_word)
    ELSE end

find_word(text, pos, big_word, inn) ==
    IF pos >= Len(text) THEN None
    ELSE IF ~PyIndexOk(text, pos) THEN Raise("IndexError")    \* content[end]
    ELSE LET start == WordStart(text, pos, big_word)
             end == WordEnd(text, pos, big_word)
         IN  IF start = end THEN None ELSE Range(start, end)

\* str.split('\n'): the lines of the text, at least one.
RECURSIVE SplitLines(_)
SplitLines(text) ==
    LET nl == PyFind(text, "\n", 0)
    IN  IF nl = -1 THEN <<text>>
        ELSE <<SubSeq(text, 1, nl)>> \o SplitLines(SubSeq(text, nl + 2, Len(text)))

\* bool(line.strip()): the line holds a character that is not whitespace.
StripTruthy(line) == \E i \in 1..Len(line) : ~IsSpace(line[i])

RECURSIVE SumLineLens(_, _)
SumLineLens(all_lines, n) ==   \* sum(len(all_lines[i]) + 1 for i in range(n))
    IF n <= 0 THEN 0 ELSE SumLineLens(all_lines, n - 1) + Len(all_lines[n]) + 1

RECURSIVE ParaStart(_, _)
ParaStart(all_lines, start_line) ==
    IF start_line > 0 /\ StripTruthy(all_lines[start_line])
    THEN ParaStart(all_lines, start_line - 1)
    ELSE start_line
RECURSIVE ParaEnd(_, _)
ParaEnd(all_lines, end_line) ==
    IF end_line < Len(all_lines) - 1 /\ StripTruthy(all_lines[end_line + 2])
    THEN ParaEnd(all_lines, end_line + 1)
    ELSE end_line

find_paragraph(text, pos, inn) ==
    LET before == PySlice(text, 0, pos)
        lines == Cardinality({i \in 1..Len(before) : before[i] = "\n"})
        all_lines == SplitLines(text)
        start_line == ParaStart(all_lines, lines)
        end_line == ParaEnd(all_lines, lines)
    IN  Range(SumLineLens(all_lines, start_line),
              SumLineLens(all_lines, end_line + 1) - 1)

\* The kinds the dispatch of find_object sends to a scanner modelled here.
\* 's', 't', 'l' and 'k' go to regex scanners that are not modelled.
ModelledKinds == {"(", ")", "[", "]", "{", "}", "<", ">", "\"", "'", Backtick,
                  "w", "W", "p", "f", "c", "i", "h", "z"}

find_object(text, pos, kind, inn) ==
    IF kind \notin DOMAIN TEXT_OBJECTS THEN None     \* custom_objects is empty
    ELSE IF TEXT_OBJECTS[kind] /\ kind \in {"(", ")", "[", "]", "{", "}"}
         THEN find_balanced_pair(text, pos, kind, inn)
    ELSE IF kind \in {"\"", "'", Backtick} THEN find_quote(text, pos, kind, inn)
    ELSE IF kind \in {"w", "W"} THEN find_word(text, pos, kind = "W", inn)
    ELSE IF kind = "p" THEN find_paragraph(text, pos, inn)
    ELSE None


(***************************************************************************)
(* Selection and MultiCursorManager                                        *)
(***************************************************************************)
Selection(anchor, head, primary) ==
    [anchor |-> anchor, head |-> head, primary |-> primary]
SelStart(sel) == Min(sel.anchor, sel.head)
SelEnd(sel) == Max(sel.anchor, sel.head)

\* MultiCursorManager.__init__
InitialSelections == <<Selection(0, 0, TRUE)>>

Primaries(sels) == {i \in 1..Len(sels) : sels[i].primary}
primary_selection(sels) ==
    IF Primaries(sels) # {}
    THEN sels[CHOOSE i \in Primaries(sels) : \A j \in Primaries(sels) : i <= j]
    ELSE IF sels # <<>> THEN sels[1] ELSE Selection(0, 0, TRUE)

NonePrimary(sels) == [i \in 1..Len(sels) |-> [sels[i] EXCEPT !.primary = FALSE]]
FirstPrimary(sels) ==
    [i \in 1..Len(sels) |-> [sels[i] EXCEPT !.primary = (i = 1)]]

add_selection(sels, anchor, head, primary) ==
    Append(IF primary THEN NonePrimary(sels) ELSE sels,
           Selection(anchor, head, primary))

\* del self.selections[index], index 0-based
DelAt(sels, index) == SubSeq(sels, 1, index) \o SubSeq(sels, index + 2, Len(sels))
remove_selection(sels, index) ==
    IF 0 <= index /\ index < Len(sels)
    THEN IF sels[index + 1].primary /\ DelAt(sels, index) # <<>>
         THEN [DelAt(sels, index) EXCEPT ![1].primary = TRUE]
         ELSE DelAt(sels, index)
    ELSE sels

clear_selections(sels) ==
    <<Selection(primary_selection(sels).head, primary_selection(sels).head, TRUE)>>

select_all(content_length) == <<Selection(0, content_length, TRUE)>>

\* One selection per (line, intersecting selection), line by line.
RECURSIVE LineSelections(_, _, _)
LineSelections(sels, lines, i) ==
    IF i >= Len(lines) THEN <<>>
    ELSE [k \in 1..Len(SelectSeq(sels, LAMBDA sel :
                 /\ SelStart(sel) <= SumLineLens(lines, i) + Len(lines[i + 1])
                 /\ SelEnd(sel) >= SumLineLens(lines, i))) |->
             Selection(SumLineLens(lines, i),
                       SumLineLens(lines, i) + Len(lines[i + 1]), FALSE)]
         \o LineSelections(sels, lines, i + 1)
OrUnchanged(new_selections, sels) ==
    IF new_selections # <<>> THEN FirstPrimary(new_selections) ELSE sels
split_selection_by_line(sels, text) ==
    OrUnchanged(LineSelections(sels, SplitLines(text), 0), sels)

\* re.finditer for the patterns \s+ and \w+: the maximal runs of the class in
\* s from offset i on, as <<start, end>> pairs.
PatternClass(pattern) == IF pattern = "\\s+" THEN "space" ELSE "word"
RECURSIVE Runs(_, _, _)
Runs(s, i, class) ==
    IF i >= Len(s) THEN <<>>
    ELSE IF RunLen(Drop(s, i), class) > 0
    THEN <<<<i, i + RunLen(Drop(s, i), class)>>>>
         \o Runs(s, i + RunLen(Drop(s, i), class), class)
    ELSE Runs(s, i + 1, class)
MatchSelections(sel, matches) ==
    [k \in 1..Len(matches) |->
        Selection(SelStart(sel) + matches[k][1], SelStart(sel) + matches[k][2],
                  FALSE)]
RECURSIVE RegexSelections(_, _, _, _)
RegexSelections(sels, text, class, i) ==
    IF i > Len(sels) THEN <<>>
    ELSE MatchSelections(sels[i],
             Runs(PySlice(text, SelStart(sels[i]), SelEnd(sels[i])), 0, class))
         \o RegexSelections(sels, text, class, i + 1)
split_selection_by_regex(sels, text, pattern) ==
    OrUnchanged(RegexSelections(sels, text, PatternClass(pattern), 1), sels)

\* The loops of extend_to_word_boundary: the offset reached as <<pos>>, or
\* <<>> when content[...] raises IndexError.
RECURSIVE SkipForward(_, _, _)
SkipForward(text, pos, alnum) ==
    IF pos >= Len(text) THEN <<pos>>
    ELSE IF ~PyIndexOk(text, pos) THEN <<>>
    ELSE IF IsAlnum(PyAt(text, pos)) = alnum THEN SkipForward(text, pos + 1, alnum)
    ELSE <<pos>>
RECURSIVE SkipBackward(_, _, _)
SkipBackward(text, pos, alnum) ==
    IF pos <= 0 THEN <<pos>>
    ELSE IF ~PyIndexOk(text, pos - 1) THEN <<>>
    ELSE IF IsAlnum(PyAt(text, pos - 1)) = alnum THEN SkipBackward(text, pos - 1, alnum)
    ELSE <<pos>>
ThenSkip(text, first, forward) ==
    IF first = <<>> THEN <<>>
    ELSE IF forward THEN SkipForward(text, first[1], FALSE)
    ELSE SkipBackward(text, first[1], FALSE)
WordBoundary(text, pos, forward) ==
    ThenSkip(text,
             IF forward THEN SkipForward(text, pos, TRUE)
             ELSE SkipBackward(text, pos, TRUE),
             forward)
\* The selections are updated one by one; a raise leaves the rest as they were.
RECURSIVE ExtendFrom(_, _, _, _)
ExtendFrom(sels, text, forward, i) ==
    IF i > Len(sels) THEN [sels |-> sels, ret |-> None]
    ELSE IF WordBoundary(text, sels[i].head, forward) = <<>>
    THEN [sels |-> sels, ret |-> Raise("IndexError")]
    ELSE ExtendFrom([sels EXCEPT ![i].head =
                        WordBoundary(text, sels[i].head, forward)[1]],
                    text, forward, i + 1)
extend_to_word_boundary(sels, text, forward) == ExtendFrom(sels, text, forward, 1)

\* The bounds find_object gives at the head of each selection, in order.
AllBounds(sels, text, kind, inn) ==
    [i \in 1..Len(sels) |-> find_object(text, sels[i].head, kind, inn)]
FoundSelections(bounds) ==
    [k \in 1..Len(SelectSeq(bounds, LAMBDA b : b.kind = "Range")) |->
        Selection(SelectSeq(bounds, LAMBDA b : b.kind = "Range")[k].start,
                  SelectSeq(bounds, LAMBDA b : b.kind = "Range")[k].end, k = 1)]
SelectFound(sels, bounds) ==
    IF \E i \in 1..Len(bounds) : bounds[i].kind = "Raise"
    THEN [sels |-> sels, ret |-> Raise("IndexError")]
    ELSE IF FoundSelections(bounds) # <<>>
    THEN [sels |-> FoundSelections(bounds), ret |-> None]
    ELSE [sels |-> sels, ret |-> None]
select_text_object(sels, text, kind, inn) ==
    SelectFound(sels, AllBounds(sels, text, kind, inn))

NotFoundThen(found, default) == IF found = -1 THEN default ELSE found
\* add_cursor_above once the newline before the primary's line is found
CursorAbove(text, head, line_start, prev_line_start) ==
    Min(prev_line_start + (head - line_start - 1),
        NotFoundThen(PyFind(text, "\n", prev_line_start), Len(text)) - 1)
AboveLine(text, head, line_start) ==
    CursorAbove(text, head, line_start,
                IF PyRFind(text, "\n", line_start) = -1 THEN 0
                ELSE PyRFind(text, "\n", line_start) + 1)
add_cursor_above(sels, text) ==
    IF PyRFind(text, "\n", primary_selection(sels).head) = -1 THEN sels
    ELSE add_selection(sels,
             AboveLine(text, primary_selection(sels).head,
                       PyRFind(text, "\n", primary_selection(sels).head)),
             AboveLine(text, primary_selection(sels).head,
                       PyRFind(text, "\n", primary_selection(sels).head)),
             FALSE)

\* add_cursor_below once the newline ending the primary's line is found
CursorBelow(text, head, line_end, line_start) ==
    Min(line_end + 1 + (head - line_start),
        NotFoundThen(PyFind(text, "\n", line_end + 1), Len(text)) - 1)
BelowLine(text, head, line_end) ==
    CursorBelow(text, head, line_end,
                IF PyRFind(text, "\n", head) = -1 THEN 0
                ELSE PyRFind(text, "\n", head) + 1)
add_cursor_below(sels, text) ==
    IF PyFind(text, "\n", primary_selection(sels).head) = -1 THEN sels
    ELSE add_selection(sels,
             BelowLine(text, primary_selection(sels).head,
                       PyFind(text, "\n", primary_selection(sels).head)),
             BelowLine(text, primary_selection(sels).head,
                       PyFind(text, "\n", primary_selection(sels).head)),
             FALSE)

flip_selections(sels) ==
    [i \in 1..Len(sels) |->
        Selection(sels[i].head, sels[i].anchor, sels[i].primary)]

\* sorted(self.selections, key=start): the indices in sorted order; selections
\* of equal start keep their order (the sort is stable, also with reverse).
Rank(sels, i, descending) ==
    1 + Cardinality({j \in 1..Len(sels) :
            \/ IF descending THEN SelStart(sels[j]) > SelStart(sels[i])
                             ELSE SelStart(sels[j]) < SelStart(sels[i])
            \/ SelStart(sels[j]) = SelStart(sels[i]) /\ j < i})
SortedOrder(sels, descending) ==
    [r \in 1..Len(sels) |-> CHOOSE i \in 1..Len(sels) : Rank(sels, i, descending) = r]
SortedSels(sels) == [r \in 1..Len(sels) |-> sels[SortedOrder(sels, FALSE)[r]]]

MergeInto(merged, sel) ==
    IF SelStart(sel) <= SelEnd(merged[Len(merged)])
    THEN [merged EXCEPT ![Len(merged)] =
            Selection(SelStart(@), Max(SelEnd(@), SelEnd(sel)),
                      @.primary \/ sel.primary)]
    ELSE Append(merged, sel)
RECURSIVE MergeFrom(_, _, _)
MergeFrom(merged, sorted_sels, k) ==
    IF k > Len(sorted_sels) THEN merged
    ELSE MergeFrom(MergeInto(merged, sorted_sels[k]), sorted_sels, k + 1)
EnsurePrimary(merged) ==
    IF Primaries(merged) = {} /\ merged # <<>>
    THEN [merged EXCEPT ![1].primary = TRUE] ELSE merged
merge_consecutive_selections(sels) ==
    IF Len(sels) < 2 THEN sels
    ELSE EnsurePrimary(MergeFrom(<<SortedSels(sels)[1]>>, SortedSels(sels), 2))

(***************************************************************************)
(* HelixFeatures.apply_to_selections                                       *)
(***************************************************************************)
\* The transforms a host hands to apply_to_selections.
Transforms == {"identity", "delete", "double"}
Transform(f, old_text) ==
    CASE f = "identity" -> old_text
      [] f = "delete" -> <<>>
      [] f = "double" -> old_text \o old_text

\* One round of the loop, on the selection of index i.
ApplyOne(sels, text, i, new_text) ==
    [sels |-> [sels EXCEPT ![i].head = SelStart(sels[i]) + Len(new_text)],
     text |-> PySlice(text, 0, SelStart(sels[i])) \o new_text
              \o PySlice(text, SelEnd(sels[i]), Len(text))]
\* The loop: st holds the selections and the text after the rounds so far.
RECURSIVE ApplyFrom(_, _, _, _)
ApplyFrom(st, f, order, k) ==
    IF k > Len(order) THEN st
    ELSE CHOOSE after \in
            {ApplyFrom(next, f, order, k + 1) :
                next \in {ApplyOne(st.sels, st.text, order[k],
                             Transform(f, PySlice(st.text,
                                                  SelStart(st.sels[order[k]]),
                                                  SelEnd(st.sels[order[k]]))))}} :
            TRUE
apply_to_selections(sels, text, f) ==
    CHOOSE st \in {ApplyFrom([sels |-> sels, text |-> text], f, order, 1) :
                      order \in {SortedOrder(sels, TRUE)}} : TRUE
\* What a call of apply_to_selections returned, with its arguments.
Applied(f, text, returned) ==
    [kind |-> "Applied", transform |-> f, content |-> text, text |-> returned]

(***************************************************************************)
(* SurroundManager                                                         *)
(***************************************************************************)
PAIRS ==
    [c \in {"(", ")", "[", "]", "{", "}", "<", ">", "\"", "'", Backtick, "t"} |->
        CASE c \in {"(", ")"} -> <<"(", ")">>
          [] c \in {"[", "]"} -> <<"[", "]">>
          [] c \in {"{", "}"} -> <<"{", "}">>
          [] c \in {"<", ">", "t"} -> <<"<", ">">>
          [] OTHER -> <<c, c>>]

\* (open_char, close_char) of a surround character; a character without an
\* entry in PAIRS is used for both sides.
SurroundChars(surround_char) ==
    IF surround_char \notin DOMAIN PAIRS THEN <<surround_char, surround_char>>
    ELSE PAIRS[surround_char]

\* The str a call returned.
StrOf(text) == [kind |-> "Str", text |-> text]

OpenTag == <<"<", "t", "a", "g", ">">>
CloseTag == <<"<", "/", "t", "a", "g", ">">>

add_surround(text, selection, surround_char) ==
    IF surround_char = "t"
    THEN StrOf(PySlice(text, 0, SelStart(selection))
             \o OpenTag \o PySlice(text, SelStart(selection), SelEnd(selection))
             \o CloseTag \o PySlice(text, SelEnd(selection), Len(text)))
    ELSE StrOf(PySlice(text, 0, SelStart(selection))
             \o <<SurroundChars(surround_char)[1]>>
             \o PySlice(text, SelStart(selection), SelEnd(selection))
             \o <<SurroundChars(surround_char)[2]>>
             \o PySlice(text, SelEnd(selection), Len(text)))

\* The text with the delimiters at the bounds replaced by open and close
\* (<<>> for none); a raise of find_object passes through, and without
\* bounds the text is returned as it is.
Respliced(text, bounds, open, close) ==
    IF bounds.kind = "Raise" THEN bounds
    ELSE IF bounds.kind = "None" THEN StrOf(text)
    ELSE StrOf(PySlice(text, 0, bounds.start)
             \o open
             \o PySlice(text, bounds.start + 1, bounds.end - 1)
             \o close
             \o PySlice(text, bounds.end, Len(text)))

delete_surround(text, selection, surround_char) ==
    Respliced(text, find_object(text, selection.head, surround_char, FALSE),
              <<>>, <<>>)

change_surround(text, selection, old_char, new_char) ==
    Respliced(text, find_object(text, selection.head, old_char, FALSE),
              <<SurroundChars(new_char)[1]>>, <<SurroundChars(new_char)[2]>>)

(***************************************************************************)
(* Calls of TextObjectFinder.find_object on drawn inputs.                  *)
(***************************************************************************)
\* The characters a text is drawn from, per object kind.
AlphabetOf(kind) ==
    CASE kind \in {"(", ")"} -> {"(", ")", "a"}
      [] kind \in {"[", "]"} -> {"[", "]", "a"}
      [] kind \in {"{", "}"} -> {"{", "}", "a"}
      [] kind \in {"<", ">"} -> {"<", ">", "a"}
      [] kind \in {"\"", "'", Backtick} -> {kind, "\\", "a"}
      [] kind \in {"w", "W"} -> {"a", "_", " ", "-"}
      [] kind = "p" -> {"a", "\n", " "}
      [] OTHER -> {"a"}

\* The example texts of the specification's testable properties.
Hello == <<"h", "e", "l", "l", "o">>
ExampleTexts(kind) ==
    CASE kind = "(" -> {<<"(">> \o Hello \o <<")">>, <<"(">> \o Hello}
      [] kind = "\"" -> {<<"s", "a", "y", " ", "\"">> \o Hello
                            \o <<"\"", " ", "n", "o", "w">>}
      [] OTHER -> {}

FindInit ==
    /\ obj_type \in ModelledKinds
    /\ content \in Texts(AlphabetOf(obj_type), MaxLen) \cup ExampleTexts(obj_type)
    /\ cursor_pos \in 0..Len(content)
    /\ inner \in BOOLEAN
    /\ result = Pending
    /\ selections = <<>>
    /\ calls = 0 /\ last_call = "" /\ selections_before = <<>>

FindObject ==
    /\ result = Pending
    /\ result' = find_object(content, cursor_pos, obj_type, inner)
    /\ UNCHANGED <<content, selections, cursor_pos, obj_type, inner, calls, last_call,
                   selections_before>>
    /\ UNCHANGED vimVars

(***************************************************************************)
(* VimMode: keys, engine state and the key tables.                         *)
(***************************************************************************)
\* Key names the host passes for the keys that are not one character.
KEscape == <<"E", "s", "c", "a", "p", "e">>
KReturn == <<"R", "e", "t", "u", "r", "n">>
KBackSpace == <<"B", "a", "c", "k", "S", "p", "a", "c", "e">>
KLeft == <<"L", "e", "f", "t">>
KRight == <<"R", "i", "g", "h", "t">>
KUp == <<"U", "p">>
KDown == <<"D", "o", "w", "n">>
KTab == <<"T", "a", "b">>

\* A Python string as one TLA+ string (for names built by f-strings).
RECURSIVE Str(_)
Str(s) == IF s = <<>> THEN "" ELSE s[1] \o Str(Tail(s))

\* x in s for Python strings: x occurs in s as a substring.
IsSubstring(x, s) ==
    \E i \in 0..(Len(s) - Len(x)) : SubSeq(s, i + 1, i + Len(x)) = x
\* s.startswith(x)
StartsWith(s, x) == Len(x) <= Len(s) /\ SubSeq(s, 1, Len(x)) = x

\* int(s) for a string of decimal digits.
DigitVal(c) == CASE c = "0" -> 0 [] c = "1" -> 1 [] c = "2" -> 2 [] c = "3" -> 3
                 [] c = "4" -> 4 [] c = "5" -> 5 [] c = "6" -> 6 [] c = "7" -> 7
                 [] c = "8" -> 8 [] c = "9" -> 9
RECURSIVE DigitsToInt(_)
DigitsToInt(s) ==
    IF s = <<>> THEN 0
    ELSE 10 * DigitsToInt(SubSeq(s, 1, Len(s) - 1)) + DigitVal(s[Len(s)])
\* str.isdigit
StrIsDigit(s) == s # <<>> /\ \A i \in 1..Len(s) : IsDigit(s[i])

\* CommandState()
FreshCommandState ==
    [buffer |-> <<>>, cursor_pos |-> 0, history |-> <<>>, history_index |-> -1]

\* The engine's fields as one value; <<>> is None and <<x>> is x.
FreshEngine ==
    [mode |-> "normal", previous_mode |-> <<>>, count_buffer |-> <<>>,
     operator_pending |-> <<>>, key_sequence |-> <<>>,
     command_state |-> FreshCommandState]

Engine ==
    [mode |-> mode, previous_mode |-> previous_mode, count_buffer |-> count_buffer,
     operator_pending |-> operator_pending, key_sequence |-> key_sequence,
     command_state |-> command_state]

\* What a handler hands back: the engine afterwards and the value returned.
Out(st, r) == [st |-> st, ret |-> r]
Action(name) == [kind |-> "Action", action |-> name]

\* enter_mode without the reset of the pending operator.
EnterModeKeepingOperator(st, m) ==
    IF m = st.mode THEN st
    ELSE [st EXCEPT !.previous_mode = <<st.mode>>, !.mode = m,
                    !.count_buffer = <<>>, !.key_sequence = <<>>]

enter_mode(st, m) ==
    IF m = st.mode THEN st
    ELSE [st EXCEPT !.previous_mode = <<st.mode>>, !.mode = m,
                    !.count_buffer = <<>>, !.operator_pending = <<>>,
                    !.key_sequence = <<>>]

enter_normal_mode(st) == enter_mode(st, "normal")

\* The dicts of the source are sets of <<key, value>> pairs.
Has(map, k) == \E p \in map : p[1] = k
Get(map, k) == (CHOOSE p \in map : p[1] = k)[2]
KeysOf(map) == {p[1] : p \in map}

single_char_map ==
    {<<<<"i">>, "enter_insert_mode">>, <<<<"I">>, "insert_line_start">>,
     <<<<"a">>, "insert_after">>, <<<<"A">>, "insert_line_end">>,
     <<<<"o">>, "insert_line_below">>, <<<<"O">>, "insert_line_above">>,
     <<<<"v">>, "enter_visual_mode">>, <<<<"V">>, "enter_visual_line_mode">>,
     <<<<"s">>, "substitute_char">>, <<<<"S">>, "substitute_line">>,
     <<<<"x">>, "delete_char">>, <<<<"X">>, "delete_char_before">>,
     <<<<"r">>, "replace_char_prompt">>, <<<<"R">>, "enter_replace_mode">>,
     <<<<"p">>, "paste_after">>, <<<<"P">>, "paste_before">>,
     <<<<"J">>, "join_lines">>, <<<<"~">>, "toggle_case_and_move">>,
     <<<<"u">>, "undo">>, <<<<"U">>, "undo_line">>,
     <<<<".">>, "repeat_last_edit">>, <<<<"@">>, "execute_macro">>,
     <<<<"q">>, "record_macro">>, <<<<"m">>, "set_mark">>,
     <<<<"'">>, "goto_mark_line">>, <<<<Backtick>>, "goto_mark_exact">>,
     <<<<":">>, "enter_command_mode">>, <<<<"/">>, "search_forward">>,
     <<<<"?">>, "search_backward">>, <<<<"n">>, "search_next">>,
     <<<<"N">>, "search_prev">>, <<<<"*">>, "search_word_forward">>,
     <<<<"#">>, "search_word_backward">>, <<<<"%">>, "match_bracket">>,
     <<<<"z", "z">>, "center_view">>, <<<<"z", "t">>, "cursor_top">>,
     <<<<"z", "b">>, "cursor_bottom">>, <<<<"z", ".">>, "center_cursor_first_char">>,
     <<<<"z", "-">>, "cursor_bottom_first_char">>, <<<<"z", "<", "C", "R", ">">>, "cursor_top_first_char">>,
     <<<<"z", "j">>, "next_fold">>, <<<<"z", "k">>, "prev_fold">>,
     <<<<"z", "o">>, "open_fold">>, <<<<"z", "c">>, "close_fold">>,
     <<<<"z", "a">>, "toggle_fold">>, <<<<"z", "r">>, "open_all_folds">>,
     <<<<"z", "m">>, "close_all_folds">>}

two_char_map ==
    {<<<<"d", "d">>, "delete_line">>, <<<<"c", "c">>, "change_line">>,
     <<<<"y", "y">>, "yank_line">>, <<<<"Y">>, "yank_to_end">>,
     <<<<"D">>, "delete_to_end">>, <<<<"C">>, "change_to_end">>,
     <<<<"g", "g">>, "goto_first_line">>, <<<<"G">>, "goto_file_end">>,
     <<<<">", ">">>, "indent_line">>, <<<<"<", "<">>, "unindent_line">>,
     <<<<"=", "=">>, "auto_indent_line">>, <<<<"g", "d">>, "goto_definition">>,
     <<<<"g", "D">>, "goto_definition_global">>, <<<<"g", "f">>, "goto_file">>,
     <<<<"g", "a">>, "show_ascii">>, <<<<"g", "8">>, "show_utf8">>,
     <<<<"g", "i">>, "goto_last_insert">>, <<<<"g", "I">>, "insert_line_start">>,
     <<<<"g", "h">>, "select_mode">>, <<<<"g", "n">>, "select_next_match">>,
     <<<<"g", "N">>, "select_prev_match">>, <<<<"g", "e">>, "word_end_backward">>,
     <<<<"g", "E">>, "WORD_end_backward">>, <<<<"g", "u">>, "make_lowercase_motion">>,
     <<<<"g", "U">>, "make_uppercase_motion">>, <<<<"g", "~">>, "toggle_case_motion">>,
     <<<<"g", "q">>, "format_motion">>, <<<<"g", "w">>, "format_motion_keep_cursor">>,
     <<<<"g", "x">>, "open_url">>, <<<<"[", "[">>, "prev_section">>,
     <<<<"]", "]">>, "next_section">>, <<<<"[", "]">>, "prev_section_end">>,
     <<<<"]", "[">>, "next_section_end">>, <<<<"[", "(">>, "prev_unmatched_open_brace">>,
     <<<<"]", ")">>, "next_close_paren">>, <<<<"[", "{">>, "prev_unmatched_open_brace">>,
     <<<<"]", "}">>, "next_unmatched_close_brace">>, <<<<"[", "m">>, "prev_method_start">>,
     <<<<"]", "m">>, "next_method_start">>, <<<<"[", "M">>, "prev_method_end">>,
     <<<<"]", "M">>, "next_method_end">>, <<<<"[", "*">>, "prev_comment">>,
     <<<<"]", "*">>, "next_comment">>, <<<<"[", "(", "]">>, "prev_open_paren">>}

objects ==
    {<<"\"", "double_quote">>, <<"'", "single_quote">>, <<Backtick, "backtick">>,
     <<"(", "parentheses">>, <<")", "parentheses">>, <<"[", "brackets">>,
     <<"]", "brackets">>, <<"{", "braces">>, <<"}", "braces">>,
     <<"<", "angle_brackets">>, <<">", "angle_brackets">>, <<"t", "tag">>,
     <<"w", "word">>, <<"W", "WORD">>, <<"s", "sentence">>,
     <<"p", "paragraph">>, <<"b", "block">>, <<"B", "block">>,
     <<"i", "indent">>}

motion_map ==
    {<<"w", "word">>, <<"W", "WORD">>, <<"e", "word_end">>,
     <<"E", "WORD_end">>, <<"b", "word_back">>, <<"B", "WORD_back">>,
     <<"$", "line_end">>, <<"0", "line_start">>, <<"^", "first_non_whitespace">>}

ctrl_map ==
    {<<"f", "page_down">>, <<"b", "page_up">>,
     <<"d", "half_page_down">>, <<"u", "half_page_up">>,
     <<"e", "scroll_line_down">>, <<"y", "scroll_line_up">>,
     <<"r", "redo">>, <<"a", "increment_number">>,
     <<"x", "decrement_number">>, <<"v", "enter_visual_block_mode">>,
     <<"o", "insert_line_above_and_enter">>, <<"n", "search_next_word">>}

action_map ==
    {<<<<"o">>, "move_to_other_end">>, <<<<"O">>, "move_to_other_end_block">>,
     <<<<"g", "v">>, "reselect_last">>, <<<<"J">>, "join_selection_lines">>,
     <<<<"u">>, "selection_to_lowercase">>, <<<<"U">>, "selection_to_uppercase">>,
     <<<<">">>, "indent_selection">>, <<<<"<">>, "unindent_selection">>,
     <<<<"=">>, "auto_indent_selection">>}

all_sequences ==
    {<<"g", "g">>, <<"g", "d">>, <<"g", "D">>, <<"g", "f">>, <<"g", "a">>, <<"g", "8">>, <<"g", "i">>, <<"g", "I">>,
     <<"g", "h">>, <<"g", "n">>, <<"g", "N">>, <<"g", "e">>, <<"g", "E">>, <<"g", "u">>, <<"g", "U">>, <<"g", "~">>,
     <<"g", "q">>, <<"g", "w">>, <<"g", "x">>, <<"d", "d">>, <<"c", "c">>, <<"y", "y">>, <<">", ">">>, <<"<", "<">>,
     <<"=", "=">>, <<"c", "i">>, <<"c", "a">>, <<"d", "i">>, <<"d", "a">>, <<"y", "i">>, <<"y", "a">>, <<"[", "[">>,
     <<"]", "]">>, <<"[", "]">>, <<"]", "[">>, <<"[", "(">>, <<"]", ")">>, <<"[", "{">>, <<"]", "}">>, <<"[", "m">>,
     <<"]", "m">>, <<"[", "M">>, <<"]", "M">>, <<"z", "j">>, <<"z", "k">>, <<"z", "o">>, <<"z", "c">>, <<"z", "a">>,
     <<"z", "r">>, <<"z", "m">>}

ex_commands ==
    {<<<<"w">>, "_cmd_write">>, <<<<"w", "q">>, "_cmd_write_quit">>,
     <<<<"q">>, "_cmd_quit">>, <<<<"q", "!">>, "_cmd_force_quit">>,
     <<<<"q", "a">>, "_cmd_quit_all">>, <<<<"q", "a", "!">>, "_cmd_force_quit_all">>,
     <<<<"e">>, "_cmd_edit">>, <<<<"b", "n">>, "_cmd_buffer_next">>,
     <<<<"b", "p">>, "_cmd_buffer_prev">>, <<<<"b", "d">>, "_cmd_buffer_close">>,
     <<<<"l", "s">>, "_cmd_list_buffers">>, <<<<"s">>, "_cmd_substitute">>,
     <<<<"%", "s">>, "_cmd_substitute_all">>, <<<<"g">>, "_cmd_global">>,
     <<<<"v">>, "_cmd_global_inverse">>, <<<<"d">>, "_cmd_delete">>,
     <<<<"y">>, "_cmd_yank">>, <<<<"p", "u">>, "_cmd_put">>,
     <<<<"c", "o">>, "_cmd_copy">>, <<<<"t">>, "_cmd_copy">>,
     <<<<"m">>, "_cmd_move">>, <<<<"j">>, "_cmd_join">>,
     <<<<"r">>, "_cmd_read">>, <<<<"!">>, "_cmd_shell">>,
     <<<<"s", "o">>, "_cmd_source">>, <<<<"s", "e", "t">>, "_cmd_set">>,
     <<<<"l", "e", "t">>, "_cmd_let">>, <<<<"m", "a", "p">>, "_cmd_map">>,
     <<<<"n", "m", "a", "p">>, "_cmd_nmap">>, <<<<"i", "m", "a", "p">>, "_cmd_imap">>,
     <<<<"v", "m", "a", "p">>, "_cmd_vmap">>, <<<<"u", "n", "m", "a", "p">>, "_cmd_unmap">>,
     <<<<"n", "o", "h">>, "_cmd_nohlsearch">>, <<<<"s", "y", "n">>, "_cmd_syntax">>,
     <<<<"h", "i">>, "_cmd_highlight">>, <<<<"c", "o", "l", "o", "r", "s", "c", "h", "e", "m", "e">>, "_cmd_colorscheme">>,
     <<<<"t", "a", "b", "n", "e", "w">>, "_cmd_tabnew">>, <<<<"t", "a", "b", "c">>, "_cmd_tabclose">>,
     <<<<"t", "a", "b", "n">>, "_cmd_tabnext">>, <<<<"t", "a", "b", "p">>, "_cmd_tabprev">>,
     <<<<"v", "s", "p">>, "_cmd_vsplit">>, <<<<"s", "p">>, "_cmd_split">>,
     <<<<"c", "l", "o">>, "_cmd_close">>, <<<<"o", "n">>, "_cmd_only">>,
     <<<<"r", "e", "s">>, "_cmd_resize">>, <<<<"v", "e", "r", "t">>, "_cmd_vertical_resize">>,
     <<<<"c", "d">>, "_cmd_cd">>, <<<<"p", "w", "d">>, "_cmd_pwd">>,
     <<<<"m", "k", "d", "i", "r">>, "_cmd_mkdir">>, <<<<"h", "e", "l", "p">>, "_cmd_help">>,
     <<<<"v", "e", "r", "s", "i", "o", "n">>, "_cmd_version">>}



(***************************************************************************)
(* VimMode: Normal, Insert, Visual and Replace key handling.               *)
(***************************************************************************)
handle_ctrl_key(key) ==
    IF Len(key) = 1 /\ Has(ctrl_map, key[1])
    THEN Action(Get(ctrl_map, key[1]))
    ELSE None

lookup_action(sequence) ==
    IF Has(single_char_map, sequence) THEN <<Get(single_char_map, sequence)>>
    ELSE IF Has(two_char_map, sequence) THEN <<Get(two_char_map, sequence)>>
    ELSE IF Len(sequence) >= 2 /\ sequence[1] \in {"c", "d", "y"}
    THEN IF Len(sequence) = 2
            /\ sequence[2] \in {"w", "W", "e", "b", "B", "$", "0", "^"}
         THEN <<sequence[1] \o "_motion_" \o
                  (IF Has(motion_map, sequence[2])
                   THEN Get(motion_map, sequence[2]) ELSE sequence[2])>>
         ELSE IF Len(sequence) = 3 /\ sequence[2] \in {"i", "a"}
                 /\ Has(objects, sequence[3])
         THEN <<sequence[1] \o "_"
                  \o (IF sequence[2] = "i" THEN "inner" ELSE "around")
                  \o "_" \o Get(objects, sequence[3])>>
         ELSE <<>>
    ELSE <<>>

OperatorChars ==
    <<"c", "d", "y", ">", "<", "g", "~", "g", "u", " ", "g", "U",
      "g", "q", "g", "w", "g", "!", "?">>
is_operator(key) == IsSubstring(key, OperatorChars)

\* A variant of _has_partial_match that takes every sequence for a prefix.
HasPartialMatchAny(sequence) == sequence # <<>>

has_partial_match(sequence) ==
    \E seq \in all_sequences : StartsWith(seq, sequence) /\ seq # sequence

execute_action(st, action) ==
    [kind |-> "Action", action |-> action,
     count |-> IF st.count_buffer # <<>> THEN DigitsToInt(st.count_buffer) ELSE 1,
     operator |-> st.operator_pending]

\* The resolution of a key sequence with enter_insert_mode performed by the
\* engine itself.
ResolveSequenceEnteringInsert(st1, key, action) ==
    IF action = <<"enter_insert_mode">>
    THEN Out(enter_mode(st1, "insert"), execute_action(st1, action[1]))
    ELSE IF action # <<>>
    THEN Out([st1 EXCEPT !.key_sequence = <<>>, !.count_buffer = <<>>],
             execute_action(st1, action[1]))
    ELSE IF is_operator(key)
    THEN Out([st1 EXCEPT !.operator_pending = <<key>>], None)
    ELSE IF has_partial_match(st1.key_sequence)
    THEN Out(st1, None)
    ELSE Out([st1 EXCEPT !.key_sequence = <<>>, !.count_buffer = <<>>,
                         !.operator_pending = <<>>], None)

\* _handle_normal_key once the key is appended to key_sequence (st1).
ResolveSequence(st1, key, action) ==
    IF action # <<>>
    THEN Out([st1 EXCEPT !.key_sequence = <<>>, !.count_buffer = <<>>],
             execute_action(st1, action[1]))
    ELSE IF is_operator(key)
    THEN Out([st1 EXCEPT !.operator_pending = <<key>>], None)
    ELSE IF has_partial_match(st1.key_sequence)
    THEN Out(st1, None)
    ELSE Out([st1 EXCEPT !.key_sequence = <<>>, !.count_buffer = <<>>,
                         !.operator_pending = <<>>], None)

\* _handle_normal_key taking every digit as a count digit.
HandleNormalKeyAnyDigit(st, key, ctrl) ==
    IF ctrl THEN Out(st, handle_ctrl_key(key))
    ELSE IF StrIsDigit(key)
    THEN Out([st EXCEPT !.count_buffer = @ \o key], None)
    ELSE ResolveSequence([st EXCEPT !.key_sequence = @ \o key], key,
                         lookup_action(st.key_sequence \o key))

\* _handle_normal_key with a Ctrl command that consumes the pending count.
HandleNormalKeyCtrlTakesCount(st, key, ctrl) ==
    IF ctrl THEN Out([st EXCEPT !.count_buffer = <<>>], handle_ctrl_key(key))
    ELSE IF StrIsDigit(key) /\ (st.count_buffer # <<>> \/ key # <<"0">>)
    THEN Out([st EXCEPT !.count_buffer = @ \o key], None)
    ELSE ResolveSequence([st EXCEPT !.key_sequence = @ \o key], key,
                         lookup_action(st.key_sequence \o key))

handle_normal_key(st, key, ctrl) ==
    IF ctrl THEN Out(st, handle_ctrl_key(key))
    ELSE IF StrIsDigit(key) /\ (st.count_buffer # <<>> \/ key # <<"0">>)
    THEN Out([st EXCEPT !.count_buffer = @ \o key], None)
    ELSE ResolveSequence([st EXCEPT !.key_sequence = @ \o key], key,
                         lookup_action(st.key_sequence \o key))

InsertCtrlMap ==
    {<<"o", "single_normal_command">>,
     <<"w", "delete_word_before">>,
     <<"u", "delete_to_line_start">>,
     <<"t", "indent_line">>,
     <<"d", "unindent_line">>,
     <<"n", "completion_next">>,
     <<"p", "completion_prev">>}

handle_insert_key(st, key, ctrl) ==
    IF ctrl /\ Len(key) = 1 /\ Has(InsertCtrlMap, key[1])
    THEN Out(st, Action(Get(InsertCtrlMap, key[1])))
    ELSE IF key = KEscape \/ (ctrl /\ key = <<"c">>)
    THEN Out(enter_normal_mode(st), Action("exit_insert_mode"))
    ELSE Out(st, [kind |-> "Action", action |-> "insert_char", char |-> key])

key_to_motion(key) ==
    CASE key = <<"h">> -> "left" [] key = <<"j">> -> "down"
      [] key = <<"k">> -> "up" [] key = <<"l">> -> "right"
      [] OTHER -> Str(key)

handle_visual_key(st, key, ctrl) ==
    IF key = KEscape \/ (ctrl /\ key = <<"c">>)
    THEN Out(enter_normal_mode(st), Action("clear_selection"))
    ELSE IF IsSubstring(key, <<"h", "j", "k", "l">>)
    THEN Out(st, Action("extend_" \o key_to_motion(key)))
    ELSE IF key \in {<<"d">>, <<"x">>}
    THEN Out(st, execute_action(st, "delete_selection"))
    ELSE IF key = <<"y">> THEN Out(st, execute_action(st, "yank_selection"))
    ELSE IF key = <<"c">> THEN Out(st, execute_action(st, "change_selection"))
    ELSE IF key = <<"r">>
    THEN Out(enter_mode(st, "normal"),
             [kind |-> "Action", action |-> "replace_selection", await_char |-> TRUE])
    ELSE IF Has(action_map, key) THEN Out(st, Action(Get(action_map, key)))
    ELSE Out(st, None)

handle_replace_key(st, key, ctrl) ==
    IF key = KEscape THEN Out(enter_normal_mode(st), None)
    ELSE Out(st, [kind |-> "Action", action |-> "replace_char", char |-> key])

(***************************************************************************)
(* VimMode: the ex-command handlers.  An optional value is <<>> (None) or  *)
(* <<x>>.  The regular expressions are matched the way re.match matches    *)
(* them, on texts without newlines.                                        *)
(***************************************************************************)
RECURSIVE LStrip(_)
LStrip(s) == IF s # <<>> /\ IsSpace(s[1]) THEN LStrip(Tail(s)) ELSE s
RECURSIVE RStrip(_)
RStrip(s) ==
    IF s # <<>> /\ IsSpace(s[Len(s)]) THEN RStrip(SubSeq(s, 1, Len(s) - 1)) ELSE s
Strip(s) == RStrip(LStrip(s))          \* str.strip()


\* s.split(None, 1): at most two parts, split at the first run of whitespace.
SplitParts(first, rest) == IF rest = <<>> THEN <<first>> ELSE <<first, rest>>
SplitStripped(t) ==
    IF t = <<>> THEN <<>>
    ELSE SplitParts(SubSeq(t, 1, RunLen(t, "nonspace")),
                    LStrip(Drop(t, RunLen(t, "nonspace"))))
SplitWs(s) == SplitStripped(LStrip(s))

\* The offset of the first c in s (0-based), or -1.
IndexOf(s, c) == PyFind(s, c, 0)

\* re.match(r'^s(.)(.*?)\1(.*?)(?:\1([giI]+))?$', args): <<>> when there is
\* no match, else the groups.
IsFlags(s) == s # <<>> /\ \A i \in 1..Len(s) : s[i] \in {"g", "i", "I"}
SubstituteCuts(rest, delim) ==
    {k \in 0..(Len(rest) - 1) : rest[k + 1] = delim /\ IsFlags(Drop(rest, k + 1))}
SubstituteTail(pattern, rest, cuts) ==
    IF cuts = {}
    THEN <<[pattern |-> pattern, replacement |-> rest, flags |-> <<>>]>>
    ELSE <<[pattern |-> pattern,
            replacement |-> SubSeq(rest, 1, CHOOSE k \in cuts : \A j \in cuts : k <= j),
            flags |-> Drop(rest, (CHOOSE k \in cuts : \A j \in cuts : k <= j) + 1)]>>
SubstituteBody(body, delim, p) ==
    IF p = -1 THEN <<>>
    ELSE SubstituteTail(SubSeq(body, 1, p), Drop(body, p + 1),
                        SubstituteCuts(Drop(body, p + 1), delim))
SubstituteMatch(args) ==
    IF Len(args) < 2 \/ args[1] # "s" THEN <<>>
    ELSE SubstituteBody(Drop(args, 2), args[2], IndexOf(Drop(args, 2), args[2]))

SubstituteAction(match, start, end) ==
    IF match # <<>>
    THEN [kind |-> "Action", action |-> "substitute",
          pattern |-> match[1].pattern, replacement |-> match[1].replacement,
          flags |-> match[1].flags, start |-> start, end |-> end]
    ELSE [kind |-> "Action", action |-> "error",
          message |-> "Invalid substitute syntax"]
cmd_substitute(args, start, end) ==
    SubstituteAction(SubstituteMatch(args), start, end)

cmd_substitute_all(args) == cmd_substitute(args, <<<<"1">>>>, <<<<"$">>>>)

\* re.match(r'^(.)(.*?)\1(.*)$', args)
GlobalAction(body, p, inverse) ==
    IF p = -1
    THEN [kind |-> "Action", action |-> "error", message |-> "Invalid global syntax"]
    ELSE [kind |-> "Action", action |-> "global",
          pattern |-> SubSeq(body, 1, p), command |-> Drop(body, p + 1),
          inverse |-> inverse]
cmd_global(args, inverse) ==
    GlobalAction(Drop(args, 1),
                 IF args = <<>> THEN -1 ELSE IndexOf(Drop(args, 1), args[1]),
                 inverse)

\* int(s): the value of s, or <<>> where int raises ValueError.
IntLiteralOk(d) ==
    /\ d # <<>>
    /\ \A i \in 1..Len(d) : IsDigit(d[i]) \/ d[i] = "_"
    /\ IsDigit(d[1]) /\ IsDigit(d[Len(d)])
    /\ \A i \in 1..(Len(d) - 1) : ~(d[i] = "_" /\ d[i + 1] = "_")
RECURSIVE OnlyDigits(_)
OnlyDigits(d) ==
    IF d = <<>> THEN <<>>
    ELSE (IF IsDigit(d[1]) THEN <<d[1]>> ELSE <<>>) \o OnlyDigits(Tail(d))
ParseUnsigned(d, negative) ==
    IF ~IntLiteralOk(d) THEN <<>>
    ELSE IF negative THEN <<0 - DigitsToInt(OnlyDigits(d))>>
    ELSE <<DigitsToInt(OnlyDigits(d))>>
ParseStripped(t) ==
    IF t # <<>> /\ t[1] \in {"+", "-"} THEN ParseUnsigned(Tail(t), t[1] = "-")
    ELSE ParseUnsigned(t, FALSE)
ParseInt(s) == ParseStripped(Strip(s))

CopyOrMoveAction(action, dest, start, end) ==
    IF dest # <<>>
    THEN [kind |-> "Action", action |-> action, start |-> start, end |-> end,
          destination |-> dest[1]]
    ELSE [kind |-> "Action", action |-> "error", message |-> "Invalid destination"]
cmd_copy_or_move(action, args, start, end) ==
    CopyOrMoveAction(action, ParseInt(args), start, end)

SetAction(parts) ==
    IF Len(parts) = 1
    THEN [kind |-> "Action", action |-> "set_option", option |-> parts[1]]
    ELSE IF Len(parts) = 0 THEN Raise("IndexError")     \* parts[0]
    ELSE [kind |-> "Action", action |-> "set_option", option |-> parts[1],
          value |-> parts[2]]
cmd_set(args) == SetAction(SplitWs(args))

\* re.match(r'^(\w+)\s*=\s*(.*)$', args)
LetAction(name, after) ==
    IF name # <<>> /\ after # <<>> /\ after[1] = "="
    THEN [kind |-> "Action", action |-> "set_variable",
          name |-> name, value |-> LStrip(Tail(after))]
    ELSE [kind |-> "Action", action |-> "error", message |-> "Invalid let syntax"]
cmd_let(args) ==
    LetAction(SubSeq(args, 1, RunLen(args, "word")),
              LStrip(Drop(args, RunLen(args, "word"))))

MapAction(parts, map_mode) ==
    IF Len(parts) = 2
    THEN [kind |-> "Action", action |-> "map_key", key |-> parts[1],
          command |-> parts[2], mode |-> map_mode]
    ELSE [kind |-> "Action", action |-> "error", message |-> "Invalid map syntax"]
cmd_map(args, map_mode) == MapAction(SplitWs(args), map_mode)

WithPath(action, path) == [kind |-> "Action", action |-> action, path |-> path]
StripOrNone(args) == IF args # <<>> THEN <<Strip(args)>> ELSE <<>>
ConstantHandlers ==
    {<<"_cmd_quit", "quit">>,
     <<"_cmd_force_quit", "force_quit">>,
     <<"_cmd_quit_all", "quit_all">>,
     <<"_cmd_force_quit_all", "force_quit_all">>,
     <<"_cmd_buffer_next", "next_buffer">>,
     <<"_cmd_buffer_prev", "prev_buffer">>,
     <<"_cmd_buffer_close", "close_buffer">>,
     <<"_cmd_list_buffers", "list_buffers">>,
     <<"_cmd_nohlsearch", "clear_search_highlights">>,
     <<"_cmd_tabclose", "close_tab">>,
     <<"_cmd_tabnext", "next_tab">>,
     <<"_cmd_tabprev", "prev_tab">>,
     <<"_cmd_close", "close_window">>,
     <<"_cmd_only", "close_other_windows">>,
     <<"_cmd_pwd", "show_directory">>,
     <<"_cmd_version", "show_version">>}

\* self.ex_commands[name](args, start=start, end=end); a handler without
\* start and end parameters takes them in **kwargs and ignores them.
CallHandler(h, args, start, end) ==
    IF Has(ConstantHandlers, h) THEN Action(Get(ConstantHandlers, h))
    ELSE CASE h = "_cmd_write" -> WithPath("save_file", args)
      [] h = "_cmd_write_quit" -> WithPath("save_and_quit", args)
      [] h = "_cmd_edit" -> WithPath("open_file", args)
      [] h = "_cmd_substitute" -> cmd_substitute(args, start, end)
      [] h = "_cmd_substitute_all" -> cmd_substitute_all(args)
      [] h = "_cmd_global" -> cmd_global(args, FALSE)
      [] h = "_cmd_global_inverse" -> cmd_global(args, TRUE)
      [] h = "_cmd_delete" ->
            [kind |-> "Action", action |-> "delete_lines",
             start |-> start, end |-> end]
      [] h = "_cmd_yank" ->
            [kind |-> "Action", action |-> "yank_lines",
             start |-> start, end |-> end, register |-> Strip(args)]
      [] h = "_cmd_put" ->
            [kind |-> "Action", action |-> "put", register |-> Strip(args)]
      [] h = "_cmd_copy" -> cmd_copy_or_move("copy_lines", args, start, end)
      [] h = "_cmd_move" -> cmd_copy_or_move("move_lines", args, start, end)
      [] h = "_cmd_join" ->
            [kind |-> "Action", action |-> "join_lines_range",
             start |-> start, end |-> end]
      [] h = "_cmd_read" -> WithPath("read_file", Strip(args))
      [] h = "_cmd_shell" ->
            [kind |-> "Action", action |-> "shell_command", command |-> args]
      [] h = "_cmd_source" -> WithPath("source_config", Strip(args))
      [] h = "_cmd_set" -> cmd_set(args)
      [] h = "_cmd_let" -> cmd_let(args)
      [] h = "_cmd_map" -> cmd_map(args, "normal")
      [] h = "_cmd_nmap" -> cmd_map(args, "normal")
      [] h = "_cmd_imap" -> cmd_map(args, "insert")
      [] h = "_cmd_vmap" -> cmd_map(args, "visual")
      [] h = "_cmd_unmap" ->
            [kind |-> "Action", action |-> "unmap_key", key |-> Strip(args)]
      [] h = "_cmd_syntax" ->
            [kind |-> "Action", action |-> "syntax_command", args |-> args]
      [] h = "_cmd_highlight" ->
            [kind |-> "Action", action |-> "highlight_command", args |-> args]
      [] h = "_cmd_colorscheme" ->
            [kind |-> "Action", action |-> "set_colorscheme", name |-> Strip(args)]
      [] h = "_cmd_tabnew" -> WithPath("new_tab", StripOrNone(args))
      [] h = "_cmd_vsplit" -> WithPath("vsplit", StripOrNone(args))
      [] h = "_cmd_split" -> WithPath("hsplit", StripOrNone(args))
      [] h = "_cmd_resize" ->
            [kind |-> "Action", action |-> "resize_window", size |-> Strip(args)]
      [] h = "_cmd_vertical_resize" ->
            [kind |-> "Action", action |-> "vertical_resize", size |-> Strip(args)]
      [] h = "_cmd_cd" -> WithPath("change_directory", Strip(args))
      [] h = "_cmd_mkdir" -> WithPath("make_directory", Strip(args))
      [] h = "_cmd_help" ->
            [kind |-> "Action", action |-> "show_help", topic |-> StripOrNone(args)]

\* re.match(r'^(\d+|\$|\.)?(?:,(\d+|\$|\.))?(\w+)(.*)$', cmd).  The lengths
\* (\d+|\$|\.) can take at offset i, in the order the matcher tries them.
\* A matcher whose \d+ takes as few digits as it can.
BoundLensShortestFirst(t, n) ==
    IF n > 0 THEN [j \in 1..n |-> j]
    ELSE IF t # <<>> /\ t[1] \in {"$", "."} THEN <<1>>
    ELSE <<>>
BoundLensOf(t, n) ==
    IF n > 0 THEN [j \in 1..n |-> n - j + 1]
    ELSE IF t # <<>> /\ t[1] \in {"$", "."} THEN <<1>>
    ELSE <<>>
BoundLens(s, i) == BoundLensOf(Drop(s, i), RunLen(Drop(s, i), "digit"))
\* The ways the first optional group can match: its length and its value.
RangeStartsOf(s, b) ==
    [j \in 1..(Len(b) + 1) |->
        IF j <= Len(b) THEN [len |-> b[j], val |-> <<SubSeq(s, 1, b[j])>>]
        ELSE [len |-> 0, val |-> <<>>]]
RangeStarts(s) == RangeStartsOf(s, BoundLens(s, 0))
\* The ways the second optional group can match at offset i.
RangeEndsOf(s, i, b) ==
    [j \in 1..(Len(b) + 1) |->
        IF j <= Len(b)
        THEN [len |-> b[j] + 1, val |-> <<SubSeq(s, i + 2, i + 1 + b[j])>>]
        ELSE [len |-> 0, val |-> <<>>]]
RangeEnds(s, i) ==
    RangeEndsOf(s, i, IF i < Len(s) /\ s[i + 1] = "," THEN BoundLens(s, i + 1)
                      ELSE <<>>)
\* Every way the two optional groups can match, in the order the matcher
\* tries them: the first group's candidates, and per candidate the second's.
RECURSIVE RangeCandidates(_, _, _)
RangeCandidates(cmd, starts, j) ==
    IF j > Len(starts) THEN <<>>
    ELSE [k \in 1..Len(RangeEnds(cmd, starts[j].len)) |->
             [start |-> starts[j].val,
              end |-> RangeEnds(cmd, starts[j].len)[k].val,
              at |-> starts[j].len + RangeEnds(cmd, starts[j].len)[k].len]]
         \o RangeCandidates(cmd, starts, j + 1)
\* The first candidate after which (\w+) matches; (.*)$ then takes the rest.
RangeGroups(cmd, c, n) ==
    <<[start |-> c.start, end |-> c.end,
       name |-> SubSeq(cmd, c.at + 1, c.at + n), args |-> Drop(cmd, c.at + n)]>>
RangeFirst(cmd, cands, ok) ==
    IF ok = {} THEN <<>>
    ELSE RangeGroups(cmd, cands[CHOOSE i \in ok : \A j \in ok : i <= j],
                     RunLen(Drop(cmd, cands[CHOOSE i \in ok : \A j \in ok : i <= j].at),
                            "word"))
RangeAmong(cmd, cands) ==
    RangeFirst(cmd, cands,
               {i \in 1..Len(cands) : RunLen(Drop(cmd, cands[i].at), "word") >= 1})
RangeMatch(cmd) == RangeAmong(cmd, RangeCandidates(cmd, RangeStarts(cmd), 1))

HistoryCap == 100

\* The history insertion without the membership test and without the cap.
HistoryInsertUnchecked(history, cmd) == <<cmd>> \o history

\* cmd is put at the front of the history unless it is in it already.
HistoryInsert(history, cmd) ==
    IF \E i \in 1..Len(history) : history[i] = cmd THEN history
    ELSE IF Len(history) + 1 > HistoryCap THEN <<cmd>> \o SubSeq(history, 1, Len(history) - 1)
    ELSE <<cmd>> \o history

\* The handler the command resolves to and its arguments, <<>> when none.
ResolveCommand(parts, range_match) ==
    IF Has(ex_commands, parts[1])
    THEN <<[h |-> Get(ex_commands, parts[1]),
            args |-> IF Len(parts) > 1 THEN parts[2] ELSE <<>>,
            start |-> <<>>, end |-> <<>>]>>
    ELSE IF range_match # <<>> /\ Has(ex_commands, range_match[1].name)
    THEN <<[h |-> Get(ex_commands, range_match[1].name),
            args |-> range_match[1].args,
            start |-> range_match[1].start, end |-> range_match[1].end]>>
    ELSE <<>>

InvokeCommand(call) ==
    IF call = <<>> THEN None
    ELSE CallHandler(call[1].h, call[1].args, call[1].start, call[1].end)

\* The end of _execute_command: a raising handler leaves the mode as it is.
FinishCommand(st1, cmd, res) ==
    IF res.kind = "Raise" THEN Out(st1, res)
    ELSE IF res.kind = "None"
    THEN Out(enter_normal_mode(st1),
             [kind |-> "Action", action |-> "command_executed", command |-> cmd])
    ELSE Out(enter_normal_mode(st1), res)

ExecuteStripped(st, cmd) ==
    IF cmd = <<>> THEN Out(enter_normal_mode(st), None)
    ELSE FinishCommand(
            [st EXCEPT !.command_state.history = HistoryInsert(@, cmd),
                       !.command_state.history_index = -1],
            cmd,
            InvokeCommand(ResolveCommand(SplitWs(cmd), RangeMatch(cmd))))

execute_command(st) == ExecuteStripped(st, Strip(st.command_state.buffer))

(***************************************************************************)
(* VimMode: Command-mode keys and handle_key.                              *)
(***************************************************************************)
\* _handle_command_key with an Up that leaves the cursor where it was.
HandleCommandKeyCursorKept(st, key, ctrl) ==
    LET cs == st.command_state
        pos == cs.cursor_pos
    IN  IF key = KEscape \/ (ctrl /\ key = <<"c">>)
        THEN Out(enter_normal_mode(st), None)
        ELSE IF key = KReturn THEN execute_command(st)
        ELSE IF key = KBackSpace
        THEN IF pos > 0
             THEN Out([st EXCEPT !.command_state.buffer =
                                    PySlice(cs.buffer, 0, pos - 1)
                                    \o PySlice(cs.buffer, pos, Len(cs.buffer)),
                                 !.command_state.cursor_pos = pos - 1], None)
             ELSE IF cs.buffer = <<>> THEN Out(enter_normal_mode(st), None)
             ELSE Out(st, None)
        ELSE IF key = KLeft
        THEN Out([st EXCEPT !.command_state.cursor_pos =
                               IF pos > 0 THEN pos - 1 ELSE pos], None)
        ELSE IF key = KRight
        THEN Out([st EXCEPT !.command_state.cursor_pos =
                               IF pos < Len(cs.buffer) THEN pos + 1 ELSE pos], None)
        ELSE IF key = KUp
        THEN IF cs.history # <<>> /\ cs.history_index < Len(cs.history) - 1
             THEN Out([st EXCEPT !.command_state.history_index = @ + 1,
                                 !.command_state.buffer =
                                    cs.history[cs.history_index + 2]], None)
             ELSE Out(st, None)
        ELSE IF key = KDown
        THEN IF cs.history_index > 0
             THEN Out([st EXCEPT !.command_state.history_index = @ - 1,
                                 !.command_state.buffer = cs.history[cs.history_index],
                                 !.command_state.cursor_pos =
                                    Len(cs.history[cs.history_index])], None)
             ELSE IF cs.history_index = 0
             THEN Out([st EXCEPT !.command_state.history_index = -1,
                                 !.command_state.buffer = <<>>,
                                 !.command_state.cursor_pos = 0], None)
             ELSE Out([st EXCEPT !.command_state.cursor_pos = Len(cs.buffer)], None)
        ELSE IF key = KTab THEN Out(st, Action("command_complete"))
        ELSE IF Len(key) = 1
        THEN Out([st EXCEPT !.command_state.buffer =
                               PySlice(cs.buffer, 0, pos) \o key
                               \o PySlice(cs.buffer, pos, Len(cs.buffer)),
                            !.command_state.cursor_pos = pos + 1], None)
        ELSE Out(st, None)

handle_command_key(st, key, ctrl) ==
    LET cs == st.command_state
        pos == cs.cursor_pos
    IN  IF key = KEscape \/ (ctrl /\ key = <<"c">>)
        THEN Out(enter_normal_mode(st), None)
        ELSE IF key = KReturn THEN execute_command(st)
        ELSE IF key = KBackSpace
        THEN IF pos > 0
             THEN Out([st EXCEPT !.command_state.buffer =
                                    PySlice(cs.buffer, 0, pos - 1)
                                    \o PySlice(cs.buffer, pos, Len(cs.buffer)),
                                 !.command_state.cursor_pos = pos - 1], None)
             ELSE IF cs.buffer = <<>> THEN Out(enter_normal_mode(st), None)
             ELSE Out(st, None)
        ELSE IF key = KLeft
        THEN Out([st EXCEPT !.command_state.cursor_pos =
                               IF pos > 0 THEN pos - 1 ELSE pos], None)
        ELSE IF key = KRight
        THEN Out([st EXCEPT !.command_state.cursor_pos =
                               IF pos < Len(cs.buffer) THEN pos + 1 ELSE pos], None)
        ELSE IF key = KUp
        THEN IF cs.history # <<>> /\ cs.history_index < Len(cs.history) - 1
             THEN Out([st EXCEPT !.command_state.history_index = @ + 1,
                                 !.command_state.buffer =
                                    cs.history[cs.history_index + 2],
                                 !.command_state.cursor_pos =
                                    Len(cs.history[cs.history_index + 2])], None)
             ELSE Out(st, None)
        ELSE IF key = KDown
        THEN IF cs.history_index > 0
             THEN Out([st EXCEPT !.command_state.history_index = @ - 1,
                                 !.command_state.buffer = cs.history[cs.history_index],
                                 !.command_state.cursor_pos =
                                    Len(cs.history[cs.history_index])], None)
             ELSE IF cs.history_index = 0
             THEN Out([st EXCEPT !.command_state.history_index = -1,
                                 !.command_state.buffer = <<>>,
                                 !.command_state.cursor_pos = 0], None)
             ELSE Out([st EXCEPT !.command_state.cursor_pos = Len(cs.buffer)], None)
        ELSE IF key = KTab THEN Out(st, Action("command_complete"))
        ELSE IF Len(key) = 1
        THEN Out([st EXCEPT !.command_state.buffer =
                               PySlice(cs.buffer, 0, pos) \o key
                               \o PySlice(cs.buffer, pos, Len(cs.buffer)),
                            !.command_state.cursor_pos = pos + 1], None)
        ELSE Out(st, None)

handle_key(st, key, ctrl) ==
    CASE st.mode = "insert" -> handle_insert_key(st, key, ctrl)
      [] st.mode = "normal" -> handle_normal_key(st, key, ctrl)
      [] st.mode \in {"visual", "visual_line", "visual_block"} ->
            handle_visual_key(st, key, ctrl)
      [] st.mode = "command" -> handle_command_key(st, key, ctrl)
      [] st.mode = "replace" -> handle_replace_key(st, key, ctrl)

enter_command_mode(st) ==
    enter_mode([st EXCEPT !.command_state = FreshCommandState], "command")

enter_visual_mode(st, line_wise, block) ==
    IF block THEN enter_mode(st, "visual_block")
    ELSE IF line_wise THEN enter_mode(st, "visual_line")
    ELSE enter_mode(st, "visual")

(***************************************************************************)
(* Registers and macros                                                    *)
(***************************************************************************)
Register(text, linewise) == [content |-> text, linewise |-> linewise]
\* the keys made by __init__: "", a-z and 0-9
RegisterNames == {<<>>} \cup {<<c>> : c \in Lower \cup Digits}
FreshRegisters == [n \in RegisterNames |-> Register(<<>>, FALSE)]

\* registers[name] = value for a dict kept as a function
DictSet(dict, name, value) ==
    [n \in DOMAIN dict \cup {name} |-> IF n = name THEN value ELSE dict[n]]
\* A known register is written, then the unnamed one too.
SetKnown(regs, name, text, linewise) ==
    IF name \in DOMAIN regs
    THEN DictSet(regs, name, Register(text, linewise))
    ELSE regs
\* set_register writing the named register whether or not its key exists.
SetRegisterCreating(regs, name, text, linewise) ==
    DictSet(DictSet(regs, name, Register(text, linewise)), <<>>,
            Register(text, linewise))
set_register(regs, name, text, linewise) ==
    IF name # <<>>
    THEN DictSet(SetKnown(regs, name, text, linewise), <<>>,
                 Register(text, linewise))
    ELSE SetKnown(regs, name, text, linewise)
\* self.registers.get(name, self.registers.get(""))
get_register(regs, name) ==
    IF name \in DOMAIN regs THEN regs[name] ELSE regs[<<>>]

\* start_macro: [recording, buffer]
start_macro(register) == [recording |-> <<register>>, buffer |-> <<>>]
\* if self.macro_recording: None and "" are false
Recording(recording) == recording # <<>> /\ recording[1] # <<>>
\* stop_macro: [recording, buffer, macros]
stop_macro(recording, buffer, dict) ==
    IF Recording(recording)
    THEN [recording |-> <<>>, buffer |-> <<>>,
          macros |-> DictSet(dict, recording[1], buffer)]
    ELSE [recording |-> recording, buffer |-> buffer, macros |-> dict]
\* self.macros.get(register, "")
play_macro(dict, register) ==
    IF register \in DOMAIN dict THEN dict[register] ELSE <<>>

(***************************************************************************)
(* The engine as a state machine: the host's calls.                        *)
(***************************************************************************)
Event(op, key, ctrl) == [op |-> op, key |-> key, ctrl |-> ctrl]

\* The engine's variables become st; the call is appended to the trace.
Becomes(st, r, ev) ==
    /\ mode' = st.mode
    /\ previous_mode' = st.previous_mode
    /\ count_buffer' = st.count_buffer
    /\ operator_pending' = st.operator_pending
    /\ key_sequence' = st.key_sequence
    /\ command_state' = st.command_state
    /\ ret' = r
    /\ trace' = Append(trace, ev)
    /\ UNCHANGED storeVars
    /\ UNCHANGED helixVars

MaxKeys == 3       \* calls made on the engine in one run
CallsLeft == Len(trace) < MaxKeys

Returns(o, ev) == Becomes(o.st, o.ret, ev)

HandleKey(key, ctrl) ==
    Returns(handle_key(Engine, key, ctrl), Event("handle_key", key, ctrl))

EnterInsertMode ==
    /\ CallsLeft
    /\ Becomes(enter_mode(Engine, "insert"), ret, Event("enter_insert_mode", <<>>, FALSE))
    /\ UNCHANGED script
EnterNormalMode ==
    /\ CallsLeft
    /\ Becomes(enter_normal_mode(Engine), ret, Event("enter_normal_mode", <<>>, FALSE))
    /\ UNCHANGED script
EnterVisualMode ==
    /\ CallsLeft
    /\ \E line_wise \in BOOLEAN, block \in BOOLEAN :
          Becomes(enter_visual_mode(Engine, line_wise, block), ret,
                  Event("enter_visual_mode", <<>>, FALSE))
    /\ UNCHANGED script
EnterCommandMode ==
    /\ CallsLeft
    /\ Becomes(enter_command_mode(Engine), ret, Event("enter_command_mode", <<>>, FALSE))
    /\ UNCHANGED script
EnterReplaceMode ==
    /\ CallsLeft
    /\ Becomes(enter_mode(Engine, "replace"), ret, Event("enter_replace_mode", <<>>, FALSE))
    /\ UNCHANGED script

VimFresh ==
    /\ mode = FreshEngine.mode
    /\ previous_mode = FreshEngine.previous_mode
    /\ count_buffer = FreshEngine.count_buffer
    /\ operator_pending = FreshEngine.operator_pending
    /\ key_sequence = FreshEngine.key_sequence
    /\ command_state = FreshEngine.command_state
    /\ registers = FreshRegisters
    /\ macro_recording = <<>> /\ macro_buffer = <<>> /\ macros = <<>>
    /\ ret = None
    /\ trace = <<>>

\* No helix_mode object is in use.
HelixIdle ==
    /\ content = <<>>
    /\ selections = <<>>
    /\ cursor_pos = 0
    /\ obj_type = ""
    /\ inner = FALSE
    /\ result = Pending
    /\ calls = 0 /\ last_call = "" /\ selections_before = <<>>

(***************************************************************************)
(* Spec: a fresh engine driven by any keys and host calls.                 *)
(***************************************************************************)
Keys == {<<"3">>, <<"0">>, <<"d">>, <<"x">>, <<"g">>, <<"w">>, <<"i">>,
         <<"(">>, <<"c">>, <<" ">>, <<">">>, KEscape, KReturn}
CtrlKeys == {<<"f">>, <<"c">>}

Init == VimFresh /\ script = <<>> /\ HelixIdle

PressKey ==
    /\ CallsLeft
    /\ \E key \in Keys : HandleKey(key, FALSE)
    /\ UNCHANGED script
PressCtrlKey ==
    /\ CallsLeft
    /\ \E key \in CtrlKeys : HandleKey(key, TRUE)
    /\ UNCHANGED script

Next ==
    \/ PressKey
    \/ PressCtrlKey
    \/ EnterInsertMode
    \/ EnterNormalMode
    \/ EnterVisualMode
    \/ EnterCommandMode
    \/ EnterReplaceMode

Spec == Init /\ [][Next]_vars

(***************************************************************************)
(* SpecVisual: a Visual-mode session.  The host enters one of the three    *)
(* Visual modes and presses the keys of the visual table.                  *)
(***************************************************************************)
VisualModes == {"visual", "visual_line", "visual_block"}
VisualKeys ==
    {<<"o">>, <<"O">>, <<"J">>, <<"u">>, <<"U">>, <<">">>, <<"<">>, <<"=">>,
     <<"d">>, <<"x">>, <<"y">>, <<"c">>, <<"g">>, <<"v">>, <<"3">>, KEscape}

PressVisualKey ==
    /\ CallsLeft
    /\ \E key \in VisualKeys : HandleKey(key, FALSE)
    /\ UNCHANGED script

VisualNext ==
    \/ EnterVisualMode
    \/ PressVisualKey

SpecVisual == Init /\ [][VisualNext]_vars

(***************************************************************************)
(* SpecCmd: one command-line session.  The host enters Command mode, types *)
(* a drawn line key by key and presses Return.                             *)
(***************************************************************************)
MaxCmdLen == 3     \* longest line drawn freely over CmdAlphabet

CmdAlphabet == {"d", "1", ",", " ", "s", "/"}
RangeBounds == {<<"1">>, <<"3">>, <<"1", "2">>, <<"$">>, <<".">>}
RangedDeletes == {a \o <<",">> \o b \o <<"d">> : a \in RangeBounds, b \in RangeBounds}
SubDelims == {"/", "#", "x"}
SubPatterns == {<<"a">>, <<"f", "o", "o">>}
SubReplacements == {<<>>, <<"b">>, <<"b", "a", "r">>}
SubFlags == {<<>>, <<"g">>, <<"g", "i">>, <<"I">>}
SubBody(d, P, R, F) == <<d>> \o P \o <<d>> \o R \o <<d>> \o F
\* s<delim>P<delim>R<delim>F and %s<delim>P<delim>R<delim>F
Substitutes ==
    {pre \o <<"s">> \o SubBody(d, P, R, F) :
        pre \in {<<>>, <<"%">>}, d \in SubDelims, P \in SubPatterns,
        R \in SubReplacements, F \in SubFlags}
\* the same, given as the argument of the command s or %s
SpacedSubstitutes ==
    {pre \o <<"s", " ", "s">> \o SubBody(d, P, R, F) :
        pre \in {<<>>, <<"%">>}, d \in SubDelims, P \in SubPatterns,
        R \in SubReplacements, F \in SubFlags}
CmdArgs == {<<>>, <<" ", "x">>, <<" ", "x", " ", "y">>, <<" ", "3">>,
            <<" ", "x", "=", "1">>, <<" ", "/", "a", "/", "d">>}
NamedCommands == {n \o a : n \in KeysOf(ex_commands), a \in CmdArgs}
RangedCommands ==
    {<<"1", ",", "3">> \o n \o a : n \in KeysOf(ex_commands), a \in CmdArgs}
CmdLines ==
    Texts(CmdAlphabet, MaxCmdLen) \cup RangedDeletes \cup Substitutes
    \cup SpacedSubstitutes \cup NamedCommands \cup RangedCommands

CmdInit == VimFresh /\ script \in CmdLines /\ HelixIdle

OpenCommandLine ==
    /\ trace = <<>>
    /\ Becomes(enter_command_mode(Engine), ret, Event("enter_command_mode", <<>>, FALSE))
    /\ UNCHANGED script
TypeKey ==
    /\ mode = "command" /\ script # <<>>
    /\ HandleKey(<<Head(script)>>, FALSE)
    /\ script' = Tail(script)
PressReturn ==
    /\ mode = "command" /\ script = <<>>
    /\ trace[Len(trace)].key # KReturn
    /\ HandleKey(KReturn, FALSE)
    /\ UNCHANGED script

CmdNext == OpenCommandLine \/ TypeKey \/ PressReturn

SpecCmd == CmdInit /\ [][CmdNext]_vars

(***************************************************************************)
(* SpecHist: Command-mode sessions on an engine whose history earlier      *)
(* sessions have filled.  The host opens a session with enter_command_mode *)
(* or resumes the command line with enter_mode(COMMAND), which keeps the   *)
(* CommandState, types keys and presses Return, Up or Down.                *)
(***************************************************************************)
MaxHistCalls == 6    \* calls made on the engine in one run
HistCallsLeft == Len(trace) < MaxHistCalls

DigitRow == <<"0", "1", "2", "3", "4", "5", "6", "7", "8", "9">>
\* The stored commands are the two-digit lines 00 .. 99.
StoredCommand(i) == <<DigitRow[(i \div 10) + 1], DigitRow[(i % 10) + 1]>>
FullHistory == [i \in 1..HistoryCap |-> StoredCommand(i - 1)]
StoredHistories == {<<>>, SubSeq(FullHistory, 1, HistoryCap - 1), FullHistory}
HistKeys == {<<"0">>, <<"w">>, <<" ">>, KReturn, KUp, KDown}

HistInit ==
    /\ mode = FreshEngine.mode
    /\ previous_mode = FreshEngine.previous_mode
    /\ count_buffer = FreshEngine.count_buffer
    /\ operator_pending = FreshEngine.operator_pending
    /\ key_sequence = FreshEngine.key_sequence
    /\ \E history \in StoredHistories :
          command_state = [FreshCommandState EXCEPT !.history = history]
    /\ registers = FreshRegisters
    /\ macro_recording = <<>> /\ macro_buffer = <<>> /\ macros = <<>>
    /\ ret = None
    /\ trace = <<>>
    /\ script = <<>>
    /\ HelixIdle

OpenSession ==
    /\ HistCallsLeft
    /\ mode = "normal"
    /\ Becomes(enter_command_mode(Engine), ret, Event("enter_command_mode", <<>>, FALSE))
    /\ UNCHANGED script
ResumeSession ==
    /\ HistCallsLeft
    /\ mode = "normal"
    /\ Becomes(enter_mode(Engine, "command"), ret, Event("enter_mode", <<>>, FALSE))
    /\ UNCHANGED script
PressSessionKey ==
    /\ HistCallsLeft
    /\ mode = "command"
    /\ \E key \in HistKeys : HandleKey(key, FALSE)
    /\ UNCHANGED script

HistNext ==
    \/ OpenSession
    \/ ResumeSession
    \/ PressSessionKey

SpecHist == HistInit /\ [][HistNext]_vars

(***************************************************************************)
(* SpecLine: the editing of one command line.  Earlier sessions have left  *)
(* the CommandState of their last execution; the host opens a session with *)
(* enter_command_mode or resumes the command line with enter_mode(COMMAND) *)
(* and presses character, BackSpace, Left, Right, Up, Down and Tab keys.   *)
(***************************************************************************)
MaxLineCalls == 5    \* calls made on the engine in one run
LineCallsLeft == Len(trace) < MaxLineCalls

\* The CommandState after no session, after the line w was executed, and
\* after the lines w and q were.
LeftByEarlierSessions ==
    {FreshCommandState,
     [buffer |-> <<"w">>, cursor_pos |-> 1, history |-> <<<<"w">>>>,
      history_index |-> -1],
     [buffer |-> <<"q">>, cursor_pos |-> 1, history |-> <<<<"q">>, <<"w">>>>,
      history_index |-> -1]}
LineKeys == {<<"w">>, KBackSpace, KLeft, KRight, KUp, KDown, KTab}

LineInit ==
    /\ mode = FreshEngine.mode
    /\ previous_mode = FreshEngine.previous_mode
    /\ count_buffer = FreshEngine.count_buffer
    /\ operator_pending = FreshEngine.operator_pending
    /\ key_sequence = FreshEngine.key_sequence
    /\ command_state \in LeftByEarlierSessions
    /\ registers = FreshRegisters
    /\ macro_recording = <<>> /\ macro_buffer = <<>> /\ macros = <<>>
    /\ ret = None
    /\ trace = <<>>
    /\ script = <<>>
    /\ HelixIdle

OpenLine ==
    /\ LineCallsLeft
    /\ mode = "normal"
    /\ Becomes(enter_command_mode(Engine), ret, Event("enter_command_mode", <<>>, FALSE))
    /\ UNCHANGED script
ResumeLine ==
    /\ LineCallsLeft
    /\ mode = "normal"
    /\ Becomes(enter_mode(Engine, "command"), ret, Event("enter_mode", <<>>, FALSE))
    /\ UNCHANGED script
PressLineKey ==
    /\ LineCallsLeft
    /\ mode = "command"
    /\ \E key \in LineKeys : HandleKey(key, FALSE)
    /\ UNCHANGED script

LineNext ==
    \/ OpenLine
    \/ ResumeLine
    \/ PressLineKey

SpecLine == LineInit /\ [][LineNext]_vars

(***************************************************************************)
(* SpecSeq: a fresh engine in Normal mode on which one sequence of the key *)
(* grammar is typed key by key.                                            *)
(***************************************************************************)
Operators == {"c", "d", "y"}
Scopes == {"i", "a"}
MotionKeys == {"w", "W", "e", "E", "b", "B", "$", "0", "^"}
\* {c,d,y}{i,a}{object-char}
ObjectSequences ==
    {<<o, sc, x>> : o \in Operators, sc \in Scopes, x \in KeysOf(objects)}
\* {c,d,y}{w,W,e,E,b,B,$,0,^}
MotionSequences == {<<o, m>> : o \in Operators, m \in MotionKeys}
TwoCharSequences ==
    {<<"d", "d">>, <<"c", "c">>, <<"y", "y">>, <<">", ">">>, <<"<", "<">>,
     <<"=", "=">>, <<"g", "g">>, <<"g", "d">>, <<"g", "D">>, <<"g", "f">>,
     <<"g", "a">>, <<"g", "8">>, <<"g", "i">>, <<"g", "I">>, <<"g", "h">>,
     <<"g", "n">>, <<"g", "N">>, <<"g", "e">>, <<"g", "E">>, <<"g", "u">>,
     <<"g", "U">>, <<"g", "~">>, <<"g", "q">>, <<"g", "w">>, <<"g", "x">>,
     <<"[", "[">>, <<"]", "]">>, <<"[", "]">>, <<"]", "[">>, <<"z", "j">>,
     <<"z", "k">>, <<"z", "o">>, <<"z", "c">>, <<"z", "a">>, <<"z", "r">>,
     <<"z", "m">>}
KeySequences == ObjectSequences \cup MotionSequences \cup TwoCharSequences

SeqInit == VimFresh /\ script \in KeySequences /\ HelixIdle

TypeNormalKey ==
    /\ script # <<>>
    /\ HandleKey(<<Head(script)>>, FALSE)
    /\ script' = Tail(script)

SeqNext == TypeNormalKey

SpecSeq == SeqInit /\ [][SeqNext]_vars

(***************************************************************************)
(* SpecReg: a fresh engine whose registers the host writes and reads.      *)
(***************************************************************************)
\* "", a, z, 0 and the names A and % that __init__ makes no key for
RegNames == {<<>>, <<"a">>, <<"z">>, <<"0">>, <<"A">>, <<"%">>}
RegTexts == {<<>>, <<"x">>}
MaxRegCalls == 2   \* calls made on the registers in one run
RegCallsLeft == Len(trace) < MaxRegCalls

\* The engine's key state stays as it is.
KeyStateUnchanged ==
    UNCHANGED <<mode, previous_mode, count_buffer, operator_pending,
                key_sequence, command_state, script>>

SetRegister(name, text, linewise) ==
    /\ RegCallsLeft
    /\ registers' = set_register(registers, name, text, linewise)
    /\ trace' = Append(trace, Event("set_register", name, FALSE))
    /\ UNCHANGED <<macro_recording, macro_buffer, macros, ret>>
    /\ KeyStateUnchanged
    /\ UNCHANGED helixVars
SetAnyRegister ==
    \E name \in RegNames, text \in RegTexts, linewise \in BOOLEAN :
        SetRegister(name, text, linewise)
GetRegister ==
    /\ RegCallsLeft
    /\ \E name \in RegNames :
          /\ ret' = [kind |-> "Register", value |-> get_register(registers, name)]
          /\ trace' = Append(trace, Event("get_register", name, FALSE))
    /\ UNCHANGED storeVars
    /\ KeyStateUnchanged
    /\ UNCHANGED helixVars

RegNext == SetAnyRegister \/ GetRegister

SpecReg == Init /\ [][RegNext]_vars

(***************************************************************************)
(* SpecMacro: a fresh engine on which the host records and plays macros.   *)
(***************************************************************************)
MaxMacroCalls == 5   \* calls made on the engine in one run
MacroCallsLeft == Len(trace) < MaxMacroCalls
MacroRegisters == {<<"q">>, <<>>}
PlayedRegisters == {<<"q">>, <<"w">>}
MacroKeys == {"x", "j"}

StartMacro ==
    /\ MacroCallsLeft
    /\ \E register \in MacroRegisters :
          /\ macro_recording' = start_macro(register).recording
          /\ macro_buffer' = start_macro(register).buffer
          /\ trace' = Append(trace, Event("start_macro", register, FALSE))
    /\ UNCHANGED <<registers, macros, ret>>
    /\ KeyStateUnchanged
    /\ UNCHANGED helixVars
StopMacro ==
    /\ MacroCallsLeft
    /\ macro_recording' = stop_macro(macro_recording, macro_buffer, macros).recording
    /\ macro_buffer' = stop_macro(macro_recording, macro_buffer, macros).buffer
    /\ macros' = stop_macro(macro_recording, macro_buffer, macros).macros
    /\ trace' = Append(trace, Event("stop_macro", <<>>, FALSE))
    /\ UNCHANGED <<registers, ret>>
    /\ KeyStateUnchanged
    /\ UNCHANGED helixVars
PlayMacro ==
    /\ MacroCallsLeft
    /\ \E register \in PlayedRegisters :
          /\ ret' = [kind |-> "Str", value |-> play_macro(macros, register)]
          /\ trace' = Append(trace, Event("play_macro", register, FALSE))
    /\ UNCHANGED storeVars
    /\ KeyStateUnchanged
    /\ UNCHANGED helixVars
PressMacroKey ==
    /\ MacroCallsLeft
    /\ \E key \in MacroKeys : HandleKey(<<key>>, FALSE)
    /\ UNCHANGED script

MacroNext == StartMacro \/ StopMacro \/ PlayMacro \/ PressMacroKey

SpecMacro == Init /\ [][MacroNext]_vars

(***************************************************************************)
(* SpecFind: one call of find_object on drawn arguments.                   *)
(***************************************************************************)
FindSpecInit == VimFresh /\ script = <<>> /\ FindInit

FindNext == FindObject

SpecFind == FindSpecInit /\ [][FindNext]_vars

(***************************************************************************)
(* SpecSel: a fresh MultiCursorManager driven by any calls on one text,    *)
(* ended by HelixFeatures.apply_to_selections, after which the text the    *)
(* host holds is another.                                                  *)
(***************************************************************************)
MaxCalls == 3      \* calls made on the manager in one run

\* "", a, a\n, \naa, a\na, (a) and the three empty lines \n\n
SelTexts == {<<>>, <<"a">>, <<"a", "\n">>, <<"\n", "a", "a">>,
             <<"a", "\n", "a">>, <<"(", "a", ")">>, <<"\n", "\n">>}
SelKinds == {"w", "("}
SelPatterns == {"\\s+", "\\w+"}

SelInit ==
    /\ VimFresh /\ script = <<>>
    /\ content \in SelTexts
    /\ selections = InitialSelections
    /\ cursor_pos = 0 /\ obj_type = "" /\ inner = FALSE
    /\ result = Pending
    /\ calls = 0 /\ last_call = "" /\ selections_before = <<>>

\* The selections become sels; the call returns (or raises) r.
Becoming(sels, r) ==
    /\ selections' = sels
    /\ selections_before' = selections
    /\ result' = r
    /\ UNCHANGED <<content, cursor_pos, obj_type, inner>>
    /\ UNCHANGED vimVars
\* A call on the manager can be made.
Callable == result.kind # "Applied" /\ calls < MaxCalls
Manager(name, sels, r) == calls' = calls + 1 /\ last_call' = name /\ Becoming(sels, r)
Outcome(name, o) == Manager(name, o.sels, o.ret)

\* The host adds a cursor or a forward selection inside the text.
AddSelection ==
    /\ Callable
    /\ \E head \in 0..Len(content), primary \in BOOLEAN :
          \E anchor \in {0, head} :
              Manager("add_selection", add_selection(selections, anchor, head, primary), None)
RemoveSelection ==
    /\ Callable
    /\ \E index \in 0..Len(selections) :
          Manager("remove_selection", remove_selection(selections, index), None)
ClearSelections ==
    /\ Callable
    /\ Manager("clear_selections", clear_selections(selections), None)
SelectAll ==
    /\ Callable
    /\ Manager("select_all", select_all(Len(content)), None)
SplitSelectionByLine ==
    /\ Callable
    /\ Manager("split_selection_by_line", split_selection_by_line(selections, content), None)
SplitSelectionByRegex ==
    /\ Callable
    /\ \E pattern \in SelPatterns :
          Manager("split_selection_by_regex", split_selection_by_regex(selections, content, pattern), None)
ExtendToWordBoundary ==
    /\ Callable
    /\ \E forward \in BOOLEAN :
          \E o \in {extend_to_word_boundary(selections, content, forward)} :
              Outcome("extend_to_word_boundary", o)
SelectTextObject ==
    /\ Callable
    /\ \E kind \in SelKinds, inn \in BOOLEAN :
          \E o \in {select_text_object(selections, content, kind, inn)} :
              Outcome("select_text_object", o)
AddCursorAbove ==
    /\ Callable
    /\ Manager("add_cursor_above", add_cursor_above(selections, content), None)
AddCursorBelow ==
    /\ Callable
    /\ Manager("add_cursor_below", add_cursor_below(selections, content), None)
FlipSelections ==
    /\ Callable
    /\ Manager("flip_selections", flip_selections(selections), None)
MergeConsecutiveSelections ==
    /\ Callable
    /\ Manager("merge_consecutive_selections", merge_consecutive_selections(selections), None)

Returned(f, st) ==
    /\ Becoming(st.sels, Applied(f, content, st.text))
    /\ UNCHANGED calls /\ last_call' = "apply_to_selections"
ApplyToSelections ==
    /\ result.kind # "Applied"
    /\ \E f \in Transforms :
          \E st \in {apply_to_selections(selections, content, f)} :
              Returned(f, st)

SelNext ==
    \/ AddSelection
    \/ RemoveSelection
    \/ ClearSelections
    \/ SelectAll
    \/ SplitSelectionByLine
    \/ SplitSelectionByRegex
    \/ ExtendToWordBoundary
    \/ SelectTextObject
    \/ AddCursorAbove
    \/ AddCursorBelow
    \/ FlipSelections
    \/ MergeConsecutiveSelections
    \/ ApplyToSelections

SpecSel == SelInit /\ [][SelNext]_vars

(***************************************************************************)
(* SpecMerge: a fresh MultiCursorManager on which the host removes, adds,  *)
(* flips and merges selections of one text.                                *)
(***************************************************************************)
MaxMergeCalls == 4   \* calls made on the manager in one run
MergeText == <<"a", "\n", "a">>
MergeCallable == calls < MaxMergeCalls

MergeInit == SelInit /\ content = MergeText

RemoveForMerge ==
    /\ MergeCallable
    /\ \E index \in 0..Len(selections) :
          Manager("remove_selection", remove_selection(selections, index), None)
AddForMerge ==
    /\ MergeCallable
    /\ \E head \in 0..Len(content), primary \in BOOLEAN :
          \E anchor \in {0, head} :
              Manager("add_selection", add_selection(selections, anchor, head, primary), None)
FlipForMerge ==
    /\ MergeCallable
    /\ Manager("flip_selections", flip_selections(selections), None)
Merge ==
    /\ MergeCallable
    /\ Manager("merge_consecutive_selections", merge_consecutive_selections(selections), None)

MergeNext ==
    \/ RemoveForMerge
    \/ AddForMerge
    \/ FlipForMerge
    \/ Merge

SpecMerge == MergeInit /\ [][MergeNext]_vars

(***************************************************************************)
(* SpecSurround: a SurroundManager called with one selection and one       *)
(* surround character; each call is given the text the call before it      *)
(* returned.                                                               *)
(***************************************************************************)
MaxSurroundLen == 3     \* characters of the text before the first call
MaxSurroundCalls == 2   \* calls made on the manager in one run

\* Every character with a known pair, the closing forms ) and >, and a
\* character that PAIRS does not hold.
SurroundKinds == {"(", "[", "{", "<", "\"", "'", Backtick, ")", ">", "*"}
NewChars == {"[", "t", "*"}

\* What a call returned (or raised), with its arguments.
Surrounded(op, char, text, returned) ==
    [kind |-> "Surrounded", op |-> op, char |-> char, content |-> text,
     ret |-> returned]

SurroundInit ==
    /\ VimFresh /\ script = <<>>
    /\ obj_type \in SurroundKinds
    /\ content \in Texts(AlphabetOf(obj_type), MaxSurroundLen)
    /\ \E anchor, head \in 0..Len(content) :
          selections = <<Selection(anchor, head, TRUE)>>
    /\ cursor_pos = 0 /\ inner = FALSE
    /\ result = Pending
    /\ calls = 0 /\ last_call = "" /\ selections_before = <<>>

\* A call can be made: the call before it, if any, returned a text.
SurroundCallable ==
    /\ calls < MaxSurroundCalls
    /\ result.kind = "Surrounded" => result.ret.kind = "Str"
\* The text the host holds.
HeldText == IF result.kind = "Surrounded" THEN result.ret.text ELSE content

SurroundCall(op, char, returned) ==
    /\ result' = Surrounded(op, char, HeldText, returned)
    /\ calls' = calls + 1 /\ last_call' = op
    /\ UNCHANGED <<content, selections, cursor_pos, obj_type, inner, selections_before>>
    /\ UNCHANGED vimVars

AddSurround ==
    /\ SurroundCallable
    /\ \E surround_char \in {obj_type, "t"} :
          SurroundCall("add_surround", surround_char,
                       add_surround(HeldText, selections[1], surround_char))
DeleteSurround ==
    /\ SurroundCallable
    /\ SurroundCall("delete_surround", obj_type,
                    delete_surround(HeldText, selections[1], obj_type))
ChangeSurround ==
    /\ SurroundCallable
    /\ \E new_char \in NewChars :
          SurroundCall("change_surround", new_char,
                       change_surround(HeldText, selections[1], obj_type, new_char))

SurroundNext ==
    \/ AddSurround
    \/ DeleteSurround
    \/ ChangeSurround

SpecSurround == SurroundInit /\ [][SurroundNext]_vars

(***************************************************************************)
(* Properties of the Normal-mode key grammar, under Spec.                  *)
(***************************************************************************)
\* The calls made so far are handle_key on exactly these keys, no modifier.
Typed(keys) ==
    trace = [i \in 1..Len(keys) |-> Event("handle_key", <<keys[i]>>, FALSE)]

\* The operator key c as operator_pending holds it: the one-character string.
Op(c) == <<<<c>>>>

DeleteLine(count, operator) ==
    [kind |-> "Action", action |-> "delete_line", count |-> count,
     operator |-> operator]

\* C2: from a fresh Normal-mode engine the keys 3, d, d return None, None and
\* then the Action delete_line with count 3 and operator null; the keys d, d
\* alone return the Action delete_line with count 1 and operator null.
C2_DeleteLineOperatorNull ==
    /\ Typed(<<"3">>) => ret = None
    /\ Typed(<<"3", "d">>) => ret = None
    /\ Typed(<<"3", "d", "d">>) => ret = DeleteLine(3, <<>>)
    /\ Typed(<<"d">>) => ret = None
    /\ Typed(<<"d", "d">>) => ret = DeleteLine(1, <<>>)

\* What the engine returns instead: the Action carries the operator d, which
\* stays pending afterwards.
C2_DeleteLineOperatorKept ==
    /\ Typed(<<"3", "d", "d">>) =>
          ret = DeleteLine(3, Op("d")) /\ operator_pending = Op("d")
    /\ Typed(<<"d", "d">>) =>
          ret = DeleteLine(1, Op("d")) /\ operator_pending = Op("d")
C2_TypedDeleteLine == Typed(<<"3", "d", "d">>) /\ ret.kind = "Action"

\* The three accumulators are empty.
Idle == count_buffer = <<>> /\ operator_pending = <<>> /\ key_sequence = <<>>

DeleteChar(count, operator) ==
    [kind |-> "Action", action |-> "delete_char", count |-> count,
     operator |-> operator]

\* C21: whenever handle_key in Normal mode returns an Action resolved from the
\* key tables, count_buffer, operator_pending and key_sequence are all empty
\* afterwards, so the operator or count of a completed command never appears
\* in a later Action: after d, d followed by x, the Action for x has operator
\* null and count 1.
C21_ActionResetsAccumulators ==
    [][/\ (mode = "normal" /\ PressKey /\ ret'.kind = "Action") => Idle'
       /\ Typed(<<"d", "d", "x">>)' => ret' = DeleteChar(1, <<>>)
      ]_vars

\* What the engine does: a table hit empties key_sequence and count_buffer
\* and leaves operator_pending as it is, so the d of d, d is the operator of
\* the Action for x.
C21_OperatorSurvivesAction ==
    [][/\ (mode = "normal" /\ PressKey /\ ret'.kind = "Action") =>
             /\ key_sequence' = <<>> /\ count_buffer' = <<>>
             /\ mode' = "normal"
             /\ operator_pending' = operator_pending
       /\ Typed(<<"d", "d", "x">>)' => ret' = DeleteChar(1, Op("d"))
      ]_vars
C21_OperatorInLaterAction ==
    Typed(<<"d", "d", "x">>) /\ ret = DeleteChar(1, Op("d"))

\* The key of the last call.
PressedKey == trace[Len(trace)].key
\* The step is a handle_key call, with or without Ctrl.
KeyCall == trace' # trace /\ trace'[Len(trace')].op = "handle_key"
PlainKeyCall == KeyCall /\ ~trace'[Len(trace')].ctrl
\* The digit is a count digit: the count buffer is non-empty or it is not 0.
CountDigit(key) == StrIsDigit(key) /\ (count_buffer # <<>> \/ key # <<"0">>)

\* C22: in Normal mode without Ctrl a digit key is appended to count_buffer,
\* returning None and leaving key_sequence untouched, if and only if
\* count_buffer is non-empty or the digit is not 0; count_buffer never starts
\* with 0 and every count emitted in an Action is at least 1; 0 with an empty
\* count buffer is a key-sequence key, so d, 0 yields d_motion_line_start.
C22_CountDigits ==
    /\ [](/\ count_buffer # <<>> => count_buffer[1] # "0"
          /\ (ret.kind = "Action" /\ "count" \in DOMAIN ret) => ret.count >= 1)
    /\ [][(mode = "normal" /\ PlainKeyCall) =>
             /\ IF CountDigit(PressedKey')
                THEN /\ count_buffer' = count_buffer \o PressedKey'
                     /\ ret' = None
                     /\ key_sequence' = key_sequence
                ELSE count_buffer' # count_buffer \o PressedKey'
             /\ Typed(<<"d", "0">>)' =>
                   ret' = [kind |-> "Action", action |-> "d_motion_line_start",
                           count |-> 1, operator |-> Op("d")]
         ]_vars
\* 0 after 3 is a count digit: x is deleted 30 times.
C22_ThirtyTyped == Typed(<<"3", "0", "x">>) /\ ret = DeleteChar(30, <<>>)

\* The operator triggers that are one key.
OperatorKeys == {<<"c">>, <<"d">>, <<"y">>, <<">">>, <<"<">>}

\* C23: in Normal mode operator_pending is set only by a key of the operator
\* set pressed while no operator is pending; a key that is no operator
\* trigger (w, g, space pressed on its own) never becomes the pending
\* operator, and an operator key pressed while another operator is pending,
\* the key sequence being no table match and no strict prefix of a known
\* sequence (d then >), resets all accumulators.
C23_OperatorPending ==
    [][(mode = "normal" /\ PressKey) =>
          /\ (operator_pending' # operator_pending /\ operator_pending' # <<>>) =>
                /\ operator_pending = <<>>
                /\ PressedKey' \in OperatorKeys
                /\ operator_pending' = <<PressedKey'>>
          /\ \A k \in {"w", "g", " "} :
                Typed(<<k>>)' => operator_pending' = <<>>
          /\ Typed(<<"d", ">">>)' => Idle'
      ]_vars

\* What the engine does: every key that finds no action and occurs in the
\* string of _is_operator becomes the pending operator, whether or not one
\* is pending, and stays in key_sequence.
C23_SubstringBecomesOperator ==
    [][(mode = "normal" /\ PressKey) =>
          /\ (operator_pending' # operator_pending /\ operator_pending' # <<>>) =>
                /\ IsSubstring(PressedKey', OperatorChars)
                /\ operator_pending' = <<PressedKey'>>
                /\ key_sequence' = key_sequence \o PressedKey'
          /\ \A k \in {"w", "g", " "} :
                Typed(<<k>>)' => operator_pending' = Op(k)
          /\ Typed(<<"d", ">">>)' =>
                operator_pending' = Op(">") /\ key_sequence' = <<"d", ">">>
      ]_vars
C23_MotionKeyPending == Typed(<<"w">>) /\ operator_pending = Op("w")

\* C24: after every handle_key call in Normal mode key_sequence is empty or
\* a strict prefix of a known multi-key sequence, so it is never longer
\* than two keys and cannot grow without bound.
C24_KeySequenceBounded ==
    mode = "normal" =>
        /\ key_sequence = <<>> \/ has_partial_match(key_sequence)
        /\ Len(key_sequence) <= 2

\* What the engine does: a key sequence that is no strict prefix of a known
\* sequence is still kept when its last key passes _is_operator, and then
\* that key is the pending operator.
C24_KeySequenceKeptForOperator ==
    (mode = "normal" /\ key_sequence # <<>>) =>
        \/ has_partial_match(key_sequence)
        \/ /\ is_operator(<<key_sequence[Len(key_sequence)]>>)
           /\ operator_pending = Op(key_sequence[Len(key_sequence)])
C24_ThreeKeysKept ==
    Typed(<<"d", "g", "g">>) /\ key_sequence = <<"d", "g", "g">>

\* C25: handle_key('Escape') without modifiers, in any mode and any state,
\* leaves the engine in Normal mode with count_buffer, operator_pending and
\* key_sequence all empty.
C25_EscapeResets ==
    [][(PlainKeyCall /\ PressedKey' = KEscape) => (mode' = "normal" /\ Idle')]_vars
C25_EscapeAfterCountAndOperator ==
    /\ trace = <<Event("handle_key", <<"3">>, FALSE),
                 Event("handle_key", <<"d">>, FALSE),
                 Event("handle_key", KEscape, FALSE)>>
    /\ mode = "normal"
    /\ Idle

\* C26: a Ctrl+key command in Normal mode leaves count_buffer,
\* operator_pending, key_sequence and the mode unchanged, and the Action it
\* returns carries no count and no operator; digits typed before it stay
\* pending and count the next command: 3, Ctrl-f, x yields delete_char with
\* count 3.
C26_CtrlKeepsAccumulators ==
    [][/\ (mode = "normal" /\ PressCtrlKey) =>
             /\ count_buffer' = count_buffer
             /\ operator_pending' = operator_pending
             /\ key_sequence' = key_sequence
             /\ mode' = mode
             /\ ret'.kind = "Action" => DOMAIN ret' = {"kind", "action"}
             /\ PressedKey' = <<"f">> => ret' = Action("page_down")
       /\ (trace' = <<Event("handle_key", <<"3">>, FALSE),
                      Event("handle_key", <<"f">>, TRUE),
                      Event("handle_key", <<"x">>, FALSE)>>)
             => ret' = DeleteChar(3, <<>>)
      ]_vars
C26_CountAcrossCtrl ==
    /\ trace = <<Event("handle_key", <<"3">>, FALSE),
                 Event("handle_key", <<"f">>, TRUE),
                 Event("handle_key", <<"x">>, FALSE)>>
    /\ ret = DeleteChar(3, <<>>)

\* The Normal-mode keys that ask for another mode, with the Action they emit.
ModeKeys ==
    {<<"i", "enter_insert_mode">>, <<"v", "enter_visual_mode">>,
     <<"V", "enter_visual_line_mode">>, <<"R", "enter_replace_mode">>,
     <<":", "enter_command_mode">>}
EmitsOnly(st, key, action) ==
    \A o \in {handle_normal_key(st, <<key>>, FALSE)} :
        /\ o.st.mode = "normal"
        /\ o.ret = execute_action(st, action)

\* C27: handle_key never changes the mode while the engine is in Normal
\* mode: i, v, V, R and :, pressed with no key sequence under way, only emit
\* their enter_* Action and the engine stays in Normal; the only mode
\* transitions handle_key performs itself are into Normal.
C27_HandleKeyOnlyEntersNormal ==
    /\ []((mode = "normal" /\ key_sequence = <<>>) =>
             \A p \in ModeKeys : EmitsOnly(Engine, p[1], p[2]))
    /\ [][KeyCall =>
             /\ mode' = mode \/ mode' = "normal"
             /\ Typed(<<"3", "i">>)' =>
                   /\ mode' = "normal"
                   /\ ret' = [kind |-> "Action", action |-> "enter_insert_mode",
                              count |-> 3, operator |-> <<>>]
         ]_vars
C27_InsertKeyStaysNormal ==
    /\ Typed(<<"3", "i">>)
    /\ mode = "normal"
    /\ ret.kind = "Action" /\ ret.action = "enter_insert_mode"


(***************************************************************************)
(* Properties of the Visual-mode keys, under SpecVisual.                   *)
(***************************************************************************)
\* The commands of the visual table that are one key.
VisualSingleKeys ==
    {<<"o", "move_to_other_end">>, <<"O", "move_to_other_end_block">>,
     <<"J", "join_selection_lines">>, <<"u", "selection_to_lowercase">>,
     <<"U", "selection_to_uppercase">>, <<">", "indent_selection">>,
     <<"<", "unindent_selection">>, <<"=", "auto_indent_selection">>}
VisualOperatorKeys ==
    {<<"d", "delete_selection">>, <<"x", "delete_selection">>,
     <<"y", "yank_selection">>, <<"c", "change_selection">>}
SelectionAction(name) ==
    [kind |-> "Action", action |-> name, count |-> 1, operator |-> <<>>]
\* The key before the last call was g, pressed in a Visual mode.
AfterVisualG ==
    /\ mode \in VisualModes
    /\ trace # <<>>
    /\ trace[Len(trace)] = Event("handle_key", <<"g">>, FALSE)

\* The single keys and the operator keys of the visual table.
VisualOneKey ==
    /\ \A p \in VisualSingleKeys :
          PressedKey' = <<p[1]>> => ret' = Action(p[2])
    /\ \A p \in VisualOperatorKeys :
          PressedKey' = <<p[1]>> => ret' = SelectionAction(p[2])
    /\ mode' = mode

\* C28: in Visual, VisualLine and VisualBlock mode every command of the
\* visual table resolves to its Action: o, O, J, u, U, >, <, = on that key
\* press, d, x, y, c at once with count 1 and no operator, and g then v
\* yields reselect_last on the second key.
C28_VisualTable ==
    [][(mode \in VisualModes /\ PlainKeyCall) =>
          /\ PressedKey' # KEscape => VisualOneKey
          /\ (AfterVisualG /\ PressedKey' = <<"v">>) =>
                ret' = Action("reselect_last")
      ]_vars

\* What the engine does: the one-key commands resolve, and g then v returns
\* nothing on either key, the Visual handler looking up one key at a time.
C28_OneKeyCommandsOnly ==
    [][(mode \in VisualModes /\ PlainKeyCall) =>
          /\ PressedKey' # KEscape => VisualOneKey
          /\ PressedKey' \in {<<"g">>, <<"v">>} => ret' = None
      ]_vars
C28_ReselectNotFound ==
    /\ trace = <<Event("enter_visual_mode", <<>>, FALSE),
                 Event("handle_key", <<"g">>, FALSE),
                 Event("handle_key", <<"v">>, FALSE)>>
    /\ mode \in VisualModes
    /\ ret = None

(***************************************************************************)
(* Properties of the key grammar, under SpecSeq.                           *)
(***************************************************************************)
ScopeName(sc) == IF sc = "i" THEN "inner" ELSE "around"

\* C16: from a fresh Normal state, for every operator o in {c,d,y}, scope s
\* in {i,a} and object character x of the object table, handling o, s, x
\* returns None, None and then an Action named <o>_<inner|around>_<object>;
\* after the second key key_sequence is o+s and the operator is still
\* pending.
C16_TextObjectGrammar ==
    \A o \in Operators, sc \in Scopes, x \in KeysOf(objects) :
        /\ Typed(<<o>>) => ret = None
        /\ Typed(<<o, sc>>) =>
              /\ ret = None
              /\ key_sequence = <<o, sc>> /\ operator_pending = Op(o)
        /\ Typed(<<o, sc, x>>) =>
              /\ ret.kind = "Action"
              /\ ret.action = o \o "_" \o ScopeName(sc) \o "_" \o Get(objects, x)

\* What the engine does: the second key finds no action, is no operator and
\* is no proper prefix of a listed sequence, so the three accumulators are
\* reset and the third key is handled as the first key of a new sequence.
C16_ScopeKeyResets ==
    \A o \in Operators, sc \in Scopes, x \in KeysOf(objects) :
        /\ Typed(<<o, sc>>) => ret = None /\ Idle
        /\ Typed(<<o, sc, x>>) =>
              ~(ret.kind = "Action" /\
                ret.action = o \o "_" \o ScopeName(sc) \o "_" \o Get(objects, x))
C16_ObjectTyped == Typed(<<"c", "i", "(">>) /\ script = <<>>

MotionAction(o, m, count) ==
    [kind |-> "Action", action |-> o \o "_motion_" \o Get(motion_map, m),
     count |-> count, operator |-> Op(o)]

\* C17: from a fresh Normal state, for every operator o in {c,d,y} and every
\* motion key m in {w,W,e,E,b,B,$,0,^}, handling o then m returns None for o
\* and for m an Action <o>_motion_<motion name> with operator o and count 1.
C17_OperatorMotion ==
    \A o \in Operators, m \in MotionKeys :
        /\ Typed(<<o>>) => ret = None
        /\ Typed(<<o, m>>) => ret = MotionAction(o, m, 1)

\* What the engine does: every motion key but E gives the Action; E is not
\* among the keys tested before the motion table is read, so o, E returns
\* None and resets the accumulators.
C17_AllButWordEndUpper ==
    \A o \in Operators, m \in MotionKeys :
        Typed(<<o, m>>) =>
            IF m = "E" THEN ret = None /\ Idle
            ELSE ret = MotionAction(o, m, 1)
C17_WordEndUpperTyped == Typed(<<"d", "E">>) /\ ret = None

\* The sequences of two keys are entries of single_char_map and two_char_map.
InTables(seq) == Has(single_char_map, seq) \/ Has(two_char_map, seq)
TableAction(seq) ==
    IF Has(single_char_map, seq) THEN Get(single_char_map, seq)
    ELSE Get(two_char_map, seq)

\* C18: for every sequence of the two-character table, handling its two keys
\* from a fresh Normal state returns None for the first key and the table's
\* Action for the second key.
C18_TwoCharTable ==
    \A seq \in TwoCharSequences :
        /\ Typed(<<seq[1]>>) => ret = None
        /\ Typed(seq) =>
              /\ InTables(seq)
              /\ ret.kind = "Action" /\ ret.action = TableAction(seq)

\* What the engine does: every sequence but g8 gives its Action; the key 8
\* is taken as a count digit, so g, 8 returns None with count_buffer 8 and
\* g still awaited.
C18_AllButDigit ==
    \A seq \in TwoCharSequences :
        Typed(seq) =>
            IF seq = <<"g", "8">>
            THEN /\ ret = None /\ count_buffer = <<"8">>
                 /\ key_sequence = <<"g">>
            ELSE /\ InTables(seq)
                 /\ ret.kind = "Action" /\ ret.action = TableAction(seq)
C18_DigitTyped == Typed(<<"g", "8">>) /\ count_buffer = <<"8">>

(***************************************************************************)
(* Properties of the registers, under SpecReg.                             *)
(***************************************************************************)
\* the known registers a-z and 0-9
KnownRegisters == {<<c>> : c \in Lower \cup Digits}

Entered(line) ==
    trace = <<Event("enter_command_mode", <<>>, FALSE)>>
            \o [i \in 1..Len(line) |-> Event("handle_key", <<line[i]>>, FALSE)]
            \o <<Event("handle_key", KReturn, FALSE)>>

\* Recognized command names given without the arguments they need.
BareCommands == {<<"s", "e", "t">>, <<"l", "e", "t">>, <<"m", "a", "p">>,
                 <<"c", "o">>}

\* C3: handle_key returns an Action or None and never raises; Return on a
\* recognized command name with its arguments missing (set, let, map, co)
\* yields an Action and leaves the engine in Normal mode.
C3_HandleKeyNeverRaises ==
    /\ ret.kind \in {"Action", "None"}
    /\ \A line \in BareCommands :
          Entered(line) => ret.kind = "Action" /\ mode = "normal"

\* What the engine does on the bare command set: IndexError escapes
\* handle_key and the engine is still in Command mode.
C3_BareSetRaises ==
    Entered(<<"s", "e", "t">>) => ret = Raise("IndexError") /\ mode = "command"
C3_BareSetEntered == Entered(<<"s", "e", "t">>)

\* C9: typing the ranged delete a,bd (a and b each a number, $ or .) and
\* pressing Return yields the Action delete_lines with start a and end b as
\* strings, and the engine is in Normal mode afterwards.
C9_RangedDelete ==
    \A a \in RangeBounds, b \in RangeBounds :
        Entered(a \o <<",">> \o b \o <<"d">>) =>
            /\ ret = [kind |-> "Action", action |-> "delete_lines",
                      start |-> <<a>>, end |-> <<b>>]
            /\ mode = "normal"
C9_RangedDeleteEntered ==
    /\ Entered(<<"1", "2", ",", "3", "d">>)
    /\ ret.kind = "Action" /\ ret.action = "delete_lines"

\* C10: typing s<delim>P<delim>R<delim>F or %s<delim>P<delim>R<delim>F and
\* pressing Return yields a substitute Action with pattern P, replacement R
\* and flags F, over the range 1..$ for %s.
C10_Substitute ==
    \A d \in SubDelims, P \in SubPatterns, R \in SubReplacements, F \in SubFlags :
        /\ Entered(<<"s">> \o SubBody(d, P, R, F)) =>
              /\ ret.kind = "Action" /\ ret.action = "substitute"
              /\ ret.pattern = P /\ ret.replacement = R /\ ret.flags = F
        /\ Entered(<<"%", "s">> \o SubBody(d, P, R, F)) =>
              ret = [kind |-> "Action", action |-> "substitute", pattern |-> P,
                     replacement |-> R, flags |-> F,
                     start |-> <<<<"1">>>>, end |-> <<<<"$">>>>]

\* What the engine returns instead: never a substitute Action.  s/... splits
\* into the name s and arguments that no longer begin with s; %s/... is no
\* command name and no range followed by one.
C10_SubstituteNotReached ==
    \A line \in Substitutes :
        Entered(line) =>
            \/ ret = [kind |-> "Action", action |-> "error",
                      message |-> "Invalid substitute syntax"]
            \/ ret = [kind |-> "Action", action |-> "command_executed",
                      command |-> line]
C10_SubstituteEntered ==
    /\ Entered(<<"%", "s", "/", "f", "o", "o", "/", "b", "a", "r", "/", "g">>)
    /\ ret.action = "command_executed"

\* Lines over d and s that are no ex command and no range before one.
UnknownLines ==
    {line \in Texts({"d", "s"}, MaxCmdLen) :
        line # <<>> /\ ~Has(ex_commands, line)}

\* C11: Return in Command mode on a non-empty buffer whose command name is
\* not in the ex-command table yields an Action of error kind that names
\* the unknown command, never a success-kind Action.
C11_UnknownCommandIsError ==
    \A line \in UnknownLines :
        Entered(line) =>
            /\ ret.kind = "Action" /\ ret.action = "error"
            /\ IsSubstring(line, ret.message)

\* What the engine returns instead: no handler ran, the result is None and
\* the fallback Action command_executed carries the line.
C11_UnknownCommandExecuted ==
    \A line \in UnknownLines :
        Entered(line) =>
            /\ ret = [kind |-> "Action", action |-> "command_executed",
                      command |-> line]
            /\ mode = "normal"
C11_UnknownEntered ==
    /\ Entered(<<"d", "d">>) /\ <<"d", "d">> \in UnknownLines
    /\ ret.kind = "Action"

\* Return was the last key handled; in a command-line session it is pressed
\* in Command mode.
ReturnPressed ==
    trace # <<>> /\ trace[Len(trace)] = Event("handle_key", KReturn, FALSE)
\* the empty line and the lines of spaces
BlankLines == {line \in Texts({" "}, MaxCmdLen) : TRUE}

\* C19: in Command mode, handling Return always leaves the engine in Normal
\* mode whatever the buffer contains (empty, whitespace only, known, unknown
\* or malformed command); with an empty or whitespace-only buffer no Action
\* is returned and the history is unchanged.
C19_ReturnLeavesNormal ==
    /\ ReturnPressed => mode = "normal"
    /\ \A line \in BlankLines :
          Entered(line) => ret = None /\ command_state.history = <<>>

\* What the engine does: Normal mode is reached unless the handler raised,
\* which leaves the engine in Command mode; blank buffers return None and
\* leave the history empty.
C19_NormalUnlessRaised ==
    /\ ReturnPressed => (mode = "normal" \/ (ret.kind = "Raise" /\ mode = "command"))
    /\ \A line \in BlankLines :
          Entered(line) =>
              ret = None /\ command_state.history = <<>> /\ mode = "normal"
C19_RaisedInCommandMode ==
    /\ Entered(<<"s", "e", "t">>)
    /\ mode = "command" /\ command_state.buffer = <<"s", "e", "t">>

(***************************************************************************)
(* Properties of the command history, under SpecHist.                      *)
(***************************************************************************)
History == command_state.history
Entries(history) == {history[i] : i \in 1..Len(history)}

\* C29: after any sequence of command executions the history contains no
\* duplicate string, never the empty string and at most 100 entries; a
\* command that is added is at index 0, in front of the entries there were,
\* of which the oldest is dropped when they were 100.
C29_History ==
    /\ [](/\ Cardinality(Entries(History)) = Len(History)
          /\ <<>> \notin Entries(History)
          /\ Len(History) <= HistoryCap)
    /\ [][(KeyCall /\ History' # History) =>
             /\ PressedKey' = KReturn
             /\ History'[1] = Strip(command_state.buffer)
             /\ History'[1] \notin Entries(History)
             /\ Tail(History') =
                   SubSeq(History, 1, Len(History') - 1)
         ]_vars
C29_OldestDropped ==
    /\ Len(History) = HistoryCap
    /\ History[1] = <<"w">>
    /\ History[HistoryCap] = StoredCommand(HistoryCap - 2)
    /\ trace[Len(trace)].key = KReturn

OpenEvent == Event("enter_command_mode", <<>>, FALSE)
\* The calls of a session that executes the one-key line c, and of the
\* session opened after it.
ExecutedThenReopened(c) ==
    <<OpenEvent, Event("handle_key", <<c>>, FALSE),
      Event("handle_key", KReturn, FALSE), OpenEvent>>
\* A command was executed with Return and enter_command_mode was called.
Reopened ==
    /\ Len(trace) >= 2
    /\ trace[Len(trace)] = OpenEvent
    /\ trace[Len(trace) - 1] = Event("handle_key", KReturn, FALSE)
    /\ ret.kind = "Action"

\* C30: a command X executed with Return is walked back to with Up in a
\* later session: after enter_command_mode, Up sets the buffer to X with
\* history_index 0, and a following Down returns to history_index -1 with an
\* empty buffer.
C30_UpRecallsCommand ==
    [][KeyCall =>
          /\ (Reopened /\ PressedKey' = KUp) =>
                /\ command_state'.history_index = 0
                /\ command_state'.buffer # <<>>
          /\ \A c \in {"0", "w"} :
                /\ trace' = Append(ExecutedThenReopened(c),
                                   Event("handle_key", KUp, FALSE)) =>
                      command_state'.buffer = <<c>>
                /\ trace' = ExecutedThenReopened(c)
                               \o <<Event("handle_key", KUp, FALSE),
                                    Event("handle_key", KDown, FALSE)>> =>
                      /\ command_state'.history_index = -1
                      /\ command_state'.buffer = <<>>
      ]_vars

\* What the engine does: enter_command_mode replaces the CommandState, the
\* history with it, so Up and Down in the session it opens find nothing;
\* the history is walked only in a session resumed with enter_mode.
C30_HistoryLostOnReopen ==
    /\ [][trace'[Len(trace')] = OpenEvent =>
             command_state' = FreshCommandState]_vars
    /\ [][(KeyCall /\ Reopened /\ PressedKey' \in {KUp, KDown}) =>
             command_state' = FreshCommandState]_vars
    /\ [][(KeyCall /\ PressedKey' = KUp /\ History # <<>>
              /\ command_state.history_index = -1) =>
             /\ command_state'.history_index = 0
             /\ command_state'.buffer = History[1]]_vars
C30_NothingRecalled ==
    /\ trace = Append(ExecutedThenReopened("w"), Event("handle_key", KUp, FALSE))
    /\ command_state.buffer = <<>>
    /\ command_state.history_index = -1

(***************************************************************************)
(* Properties of the command-line editing, under SpecLine.                 *)
(***************************************************************************)
\* cursor_pos is inside the buffer and history_index is -1 or an index of
\* the history, counted from 0.
LineInBounds ==
    /\ 0 <= command_state.cursor_pos
    /\ command_state.cursor_pos <= Len(command_state.buffer)
    /\ -1 <= command_state.history_index
    /\ command_state.history_index < Len(History)
\* The buffer shows the history entry at history_index, cursor at its end.
ShowsHistoryEntry ==
    /\ command_state.buffer = History[command_state.history_index + 1]
    /\ command_state.cursor_pos = Len(command_state.buffer)

\* C31: after any sequence of keys in Command mode 0 <= cursor_pos <=
\* len(buffer) and -1 <= history_index < len(history); immediately after an
\* Up or Down that leaves history_index >= 0 the buffer equals
\* history[history_index] and the cursor is at the end of the buffer.
C31_LineInvariant ==
    /\ [](mode = "command" => LineInBounds)
    /\ [][(KeyCall /\ PressedKey' \in {KUp, KDown}
              /\ command_state'.history_index >= 0) => ShowsHistoryEntry']_vars

\* C31 as amended: the same for an Up or Down that changes history_index to
\* a value >= 0; an Up at the oldest entry changes nothing.
C31_LineInvariantOnMove ==
    /\ [](mode = "command" => LineInBounds)
    /\ [][(KeyCall /\ PressedKey' \in {KUp, KDown}) =>
             IF command_state'.history_index # command_state.history_index
             THEN command_state'.history_index >= 0 => ShowsHistoryEntry'
             ELSE /\ PressedKey' = KUp =>
                        /\ command_state' = command_state
                        /\ command_state.history_index = Len(History) - 1
                  /\ PressedKey' = KDown =>
                        command_state.history_index = -1]_vars
C31_OlderEntryShown ==
    /\ trace = <<Event("enter_mode", <<>>, FALSE),
                 Event("handle_key", KUp, FALSE),
                 Event("handle_key", <<"w">>, FALSE),
                 Event("handle_key", KUp, FALSE)>>
    /\ command_state.history_index = 1
    /\ command_state.buffer = <<"w">>
    /\ command_state.cursor_pos = 1

(***************************************************************************)
(* Properties of the macros, under SpecMacro.                              *)
(***************************************************************************)
\* start_macro(r), handle_key on each key of keys, stop_macro, play_macro(r)
RecordedAndPlayed(r, keys) ==
    trace = <<Event("start_macro", r, FALSE)>>
            \o [i \in 1..Len(keys) |-> Event("handle_key", <<keys[i]>>, FALSE)]
            \o <<Event("stop_macro", <<>>, FALSE), Event("play_macro", r, FALSE)>>
Played(keys) == [kind |-> "Str", value |-> keys]

\* C20: the keys passed to handle_key between start_macro(r) and
\* stop_macro() are recorded in order, so that play_macro(r) afterwards
\* returns exactly that key sequence; play_macro of a register that was
\* never recorded returns the empty sequence.
C20_MacroReplaysKeys ==
    /\ \A keys \in Texts(MacroKeys, 2) :
          RecordedAndPlayed(<<"q">>, keys) => ret = Played(keys)
    /\ \A r \in PlayedRegisters :
          trace = <<Event("play_macro", r, FALSE)>> => ret = Played(<<>>)

\* What the engine does: no key handler writes macro_buffer, so every macro
\* stored and every macro played is empty.
C20_NothingRecorded ==
    /\ macro_buffer = <<>>
    /\ \A r \in DOMAIN macros : macros[r] = <<>>
    /\ (trace # <<>> /\ trace[Len(trace)].op = "play_macro") => ret = Played(<<>>)
C20_PlayedAfterRecording ==
    /\ RecordedAndPlayed(<<"q">>, <<"x", "j">>)
    /\ <<"q">> \in DOMAIN macros

(***************************************************************************)
(* Properties of find_object, under SpecFind.                              *)
(***************************************************************************)
Called == result # Pending
PairKinds == {"(", ")", "[", "]", "{", "}"}
QuoteKinds == {"\"", "'", Backtick}
OpenOf(kind) == CASE kind \in {"(", ")"} -> "(" [] kind \in {"[", "]"} -> "["
                  [] kind \in {"{", "}"} -> "{" [] kind \in {"<", ">"} -> "<"
CloseOf(kind) == CASE kind \in {"(", ")"} -> ")" [] kind \in {"[", "]"} -> "]"
                   [] kind \in {"{", "}"} -> "}" [] kind \in {"<", ">"} -> ">"

\* Open characters less close characters of text at the offsets s..k.
Excess(text, s, k, kind) ==
    Cardinality({i \in s..k : text[i + 1] = OpenOf(kind)})
    - Cardinality({i \in s..k : text[i + 1] = CloseOf(kind)})
\* text[s] is an open character and text[e] the close character matching it
\* at nesting depth 0.
MatchingPair(text, s, e, kind) ==
    /\ 0 <= s /\ s < e /\ e < Len(text)
    /\ text[s + 1] = OpenOf(kind) /\ text[e + 1] = CloseOf(kind)
    /\ Excess(text, s, e, kind) = 0
    /\ \A k \in s..(e - 1) : Excess(text, s, k, kind) > 0
\* The pairs <<s, e>> of text that enclose the offset pos.
Enclosing(text, pos, kind) ==
    {p \in (0..pos) \X (pos..(Len(text) - 1)) :
        MatchingPair(text, p[1], p[2], kind)}

\* C4: for the kinds ( ) [ ] { } and a cursor inside the text, an around
\* result (s,e) has text[s] the open character, text[e-1] the close character
\* matching it at depth 0 and s <= cursor < e; the inner result for the same
\* input is (s+1,e-1); with no enclosing pair the result is None.
C4_BalancedPair ==
    (Called /\ obj_type \in PairKinds /\ cursor_pos < Len(content)) =>
        /\ result.kind \in {"Range", "None"}
        /\ (result.kind = "Range" /\ ~inner) =>
              <<result.start, result.end - 1>>
                  \in Enclosing(content, cursor_pos, obj_type)
        /\ (result.kind = "Range" /\ inner) =>
              /\ <<result.start - 1, result.end>>
                    \in Enclosing(content, cursor_pos, obj_type)
              /\ find_object(content, cursor_pos, obj_type, FALSE)
                    = Range(result.start - 1, result.end + 1)
        /\ Enclosing(content, cursor_pos, obj_type) = {} => result = None
        /\ (content = <<"(">> \o Hello \o <<")">> /\ cursor_pos = 3
               /\ obj_type = "(") =>
              result = IF inner THEN Range(1, 6) ELSE Range(0, 7)
        /\ (content = <<"(">> \o Hello /\ cursor_pos = 3 /\ obj_type = "(") =>
              result = None
\* A pair nested in another, the cursor on the outer open character.
C4_NestedPairFound ==
    /\ Called /\ content = <<"(", "(", ")", ")">> /\ cursor_pos = 0
    /\ obj_type = ")" /\ inner /\ result = Range(1, 3)

\* C5: for every text, the empty text included, every cursor offset with
\* 0 <= offset <= len(text) and every kind, find_object returns a range or
\* None and never raises.
C5_FindObjectNeverRaises ==
    Called => result.kind \in {"Range", "None"}
\* What find_object does with the cursor at the end of the text for a pair or
\* quote kind: content[pos] raises IndexError.
C5_RaisesAtEnd ==
    (Called /\ cursor_pos = Len(content) /\ obj_type \in PairKinds \cup QuoteKinds)
        => result = Raise("IndexError")
C5_EmptyTextRaises ==
    Called /\ content = <<>> /\ obj_type = "(" /\ result = Raise("IndexError")

\* text[i] is the quote character and no backslash is right before it.
Unescaped(text, i, quote) ==
    text[i + 1] = quote /\ (i = 0 \/ text[i] # "\\")
QuotesUpTo(text, pos, quote) ==
    {i \in 0..pos : Unescaped(text, i, quote)}
QuotesAfter(text, s, quote) ==
    {j \in (s + 1)..(Len(text) - 1) : Unescaped(text, j, quote)}
Greatest(S) == CHOOSE x \in S : \A y \in S : y <= x
Least(S) == CHOOSE x \in S : \A y \in S : x <= y
Shifted(r, by) ==
    IF r.kind = "Range" THEN Range(r.start + by, r.end + by) ELSE r

\* C6: for the kinds " ' ` and a cursor inside the text, the boundaries are the
\* nearest unescaped quote s at or before the cursor and the next unescaped
\* quote e after it: inner is (s+1,e), around (s,e+1), the same as on the
\* span alone; a quote right after a backslash is no boundary; the result is
\* None when either boundary is missing.
C6_Quote ==
    (Called /\ obj_type \in QuoteKinds /\ cursor_pos < Len(content)) =>
        IF QuotesUpTo(content, cursor_pos, obj_type) = {} THEN result = None
        ELSE IF QuotesAfter(content,
                            Greatest(QuotesUpTo(content, cursor_pos, obj_type)),
                            obj_type) = {}
        THEN result = None
        ELSE /\ result =
                  IF inner
                  THEN Range(Greatest(QuotesUpTo(content, cursor_pos, obj_type)) + 1,
                             Least(QuotesAfter(content,
                                 Greatest(QuotesUpTo(content, cursor_pos, obj_type)),
                                 obj_type)))
                  ELSE Range(Greatest(QuotesUpTo(content, cursor_pos, obj_type)),
                             Least(QuotesAfter(content,
                                 Greatest(QuotesUpTo(content, cursor_pos, obj_type)),
                                 obj_type)) + 1)
             /\ result =
                  Shifted(find_object(
                              SubSeq(content,
                                     Greatest(QuotesUpTo(content, cursor_pos, obj_type)) + 1,
                                     Least(QuotesAfter(content,
                                         Greatest(QuotesUpTo(content, cursor_pos, obj_type)),
                                         obj_type)) + 1),
                              cursor_pos - Greatest(QuotesUpTo(content, cursor_pos, obj_type)),
                              obj_type, inner),
                          Greatest(QuotesUpTo(content, cursor_pos, obj_type)))
\* The spec's example: the cursor on the e of hello in say "hello" now.
C6_HelloFound ==
    /\ Called /\ obj_type = "\"" /\ inner /\ cursor_pos = 6
    /\ content = <<"s", "a", "y", " ", "\"">> \o Hello \o <<"\"", " ", "n", "o", "w">>
    /\ result = Range(5, 10)

\* The text with < > replaced by ( ).
AsParens(text) ==
    [i \in 1..Len(text) |->
        IF text[i] = "<" THEN "(" ELSE IF text[i] = ">" THEN ")" ELSE text[i]]

\* C7: for the kinds < and > and a cursor inside the text, find_object gives
\* what the kind ( gives on the text with < > replaced by ( ); on <a> with the
\* cursor 1 that is inner (1,2) and around (0,3).
C7_AngleLikeParens ==
    (Called /\ obj_type \in {"<", ">"} /\ cursor_pos < Len(content)) =>
        /\ result = find_object(AsParens(content), cursor_pos,
                                IF obj_type = "<" THEN "(" ELSE ")", inner)
        /\ (content = <<"<", "a", ">">> /\ cursor_pos = 1) =>
              result = IF inner THEN Range(1, 2) ELSE Range(0, 3)
\* What find_object returns for the angle kinds: always None.
C7_AngleNone ==
    (Called /\ obj_type \in {"<", ">"}) => result = None
C7_AngleCalled ==
    /\ Called /\ obj_type = "<" /\ content = <<"<", "a", ">">>
    /\ cursor_pos = 1 /\ result = None

(***************************************************************************)
(* Properties of the selection set, under SpecSel.                         *)
(***************************************************************************)
\* C1: after any sequence of MultiCursorManager operations from the initial
\* single-cursor state, a non-empty selection list has exactly one selection
\* with primary = true.
C1_ExactlyOnePrimary ==
    selections # <<>> => Cardinality(Primaries(selections)) = 1
\* What does hold: never two primaries; none only after the list was emptied.
C1_AtMostOnePrimary == Cardinality(Primaries(selections)) <= 1
C1_NoPrimaryReached ==
    /\ calls = 2 /\ result = None
    /\ selections = <<Selection(1, 1, FALSE)>>

\* C8: apply_to_selections(text, identity) returns text unchanged, for every
\* text and every selection set.
C8_IdentityKeepsText ==
    (result.kind = "Applied" /\ result.transform = "identity") =>
        result.text = result.content
\* What does hold: the text is unchanged when no selection has an offset
\* outside the text.
C8_IdentityKeepsTextInRange ==
    (/\ result.kind = "Applied" /\ result.transform = "identity"
     /\ \A i \in 1..Len(selections) :
           /\ 0 <= selections[i].anchor /\ selections[i].anchor <= Len(content)
           /\ 0 <= selections[i].head /\ selections[i].head <= Len(content))
        => result.text = result.content
C8_TextGrown ==
    /\ result = Applied("identity", <<"\n", "a", "a">>, <<"\n", "a", "a", "a">>)
    /\ \E i \in 1..Len(selections) : selections[i].anchor = -1

\* The 0-based lines of the text that a selection of sels touches, a line
\* reaching from its first offset to the offset of its newline.
LineFrom(text, i) == SumLineLens(SplitLines(text), i)
LineTo(text, i) == LineFrom(text, i) + Len(SplitLines(text)[i + 1])
Touches(sel, text, i) ==
    SelStart(sel) <= LineTo(text, i) /\ SelEnd(sel) >= LineFrom(text, i)
TouchedLines(sels, text) ==
    {i \in 0..(Len(SplitLines(text)) - 1) :
        \E k \in 1..Len(sels) : Touches(sels[k], text, i)}
CoversLine(sel, text, i) ==
    sel.anchor = LineFrom(text, i) /\ sel.head = LineTo(text, i)

\* C12: split_selection_by_line yields exactly one selection for each line
\* that intersects at least one existing selection, a line appearing once
\* even when several selections intersect it, each covering its line from
\* start to end, with exactly one selection primary; one selection spanning
\* a 3-line text yields exactly 3 selections.
C12_OneSelectionPerLine ==
    [][SplitSelectionByLine =>
        /\ Len(selections') = Cardinality(TouchedLines(selections, content))
        /\ \A i \in TouchedLines(selections, content) :
              Cardinality({k \in 1..Len(selections') :
                              CoversLine(selections'[k], content, i)}) = 1
        /\ selections' # <<>> => Cardinality(Primaries(selections')) = 1
        /\ (Len(SplitLines(content)) = 3 /\ Len(selections) = 1
              /\ SelStart(selections[1]) = 0
              /\ SelEnd(selections[1]) = Len(content))
           => Len(selections') = 3]_vars

\* What the manager does: a line appears once for every selection touching
\* it; the claim's statement holds when no line is touched twice.
TouchCount(sels, text) ==
    Cardinality({p \in (0..(Len(SplitLines(text)) - 1)) \X (1..Len(sels)) :
                    Touches(sels[p[2]], text, p[1])})
C12_OneSelectionPerTouch ==
    [][SplitSelectionByLine =>
        /\ TouchCount(selections, content) > 0 =>
              /\ Len(selections') = TouchCount(selections, content)
              /\ \A k \in 1..Len(selections') :
                    \E i \in TouchedLines(selections, content) :
                        CoversLine(selections'[k], content, i)
              /\ Primaries(selections') = {1}
        /\ TouchCount(selections, content) = 0 => selections' = selections
        /\ (Len(SplitLines(content)) = 3 /\ Len(selections) = 1
              /\ SelStart(selections[1]) = 0
              /\ SelEnd(selections[1]) = Len(content))
           => Len(selections') = 3]_vars
\* The same line twice after add_selection(0, 0) and split_selection_by_line.
C12_LineTwice ==
    /\ last_call = "split_selection_by_line" /\ calls = 2
    /\ content = <<"a">>
    /\ selections = <<Selection(0, 1, TRUE), Selection(0, 1, FALSE)>>
\* Three selections from one selection spanning the three lines.
C12_ThreeLines ==
    /\ last_call = "split_selection_by_line" /\ calls = 2
    /\ content = <<"\n", "\n">>
    /\ selections = <<Selection(0, 0, TRUE), Selection(1, 1, FALSE),
                      Selection(2, 2, FALSE)>>


\* The 0-based line holding offset pos, and the column of pos on it.
LineOf(text, pos) == Cardinality({j \in 1..pos : text[j] = "\n"})
ColumnOf(text, pos) == pos - LineFrom(text, LineOf(text, pos))
HasLineBelow(text, pos) == LineOf(text, pos) + 1 < Len(SplitLines(text))
\* The offset on the line below pos at the column of pos, the column clamped
\* to upto.
BelowAt(text, pos, upto) ==
    LineFrom(text, LineOf(text, pos) + 1) + Min(ColumnOf(text, pos), upto)
LenBelow(text, pos) == Len(SplitLines(text)[LineOf(text, pos) + 2])
PrimaryInText ==
    /\ selections # <<>>
    /\ primary_selection(selections).head \in 0..Len(content)

\* C13: with the primary cursor on a line that has a following line,
\* add_cursor_below appends exactly one non-primary empty selection on the
\* following line at the primary's column, clamped to the following line's
\* length if that line is shorter (an empty line included); the existing
\* selections are unchanged; without a following line the set is unchanged.
C13_CursorBelow ==
    [][(AddCursorBelow /\ PrimaryInText) =>
        IF HasLineBelow(content, primary_selection(selections).head)
        THEN selections' =
                Append(selections,
                    Selection(
                        BelowAt(content, primary_selection(selections).head,
                            LenBelow(content, primary_selection(selections).head)),
                        BelowAt(content, primary_selection(selections).head,
                            LenBelow(content, primary_selection(selections).head)),
                        FALSE))
        ELSE selections' = selections]_vars

\* What the manager does: the column is clamped to the following line's
\* length minus one, which for an empty following line is the newline that
\* ends the primary's own line.
C13_CursorBelowBeforeLineEnd ==
    [][(AddCursorBelow /\ PrimaryInText) =>
        IF HasLineBelow(content, primary_selection(selections).head)
        THEN selections' =
                Append(selections,
                    Selection(
                        BelowAt(content, primary_selection(selections).head,
                            LenBelow(content, primary_selection(selections).head) - 1),
                        BelowAt(content, primary_selection(selections).head,
                            LenBelow(content, primary_selection(selections).head) - 1),
                        FALSE))
        ELSE selections' = selections]_vars
\* add_cursor_below on a\n with the cursor at 0: the new cursor is at offset
\* 1, on the first line.
C13_BelowOnSameLine ==
    /\ last_call = "add_cursor_below" /\ calls = 1
    /\ content = <<"a", "\n">>
    /\ selections = <<Selection(0, 0, TRUE), Selection(1, 1, FALSE)>>


\* The ranges of the objects find_object gives at the heads of sels, in
\* order, a head without an object giving none.
ObjectRanges(sels, text, kind, inn) ==
    [k \in 1..Len(FoundSelections(AllBounds(sels, text, kind, inn))) |->
        <<FoundSelections(AllBounds(sels, text, kind, inn))[k].anchor,
          FoundSelections(AllBounds(sels, text, kind, inn))[k].head>>]
RangesOf(sels) == [i \in 1..Len(sels) |-> <<sels[i].anchor, sels[i].head>>]
NoObjectAt(sels, text) ==
    \A kind \in SelKinds, inn \in BOOLEAN :
        \A i \in 1..Len(sels) : find_object(text, sels[i].head, kind, inn) = None

\* C33: after select_text_object the selections are exactly the object
\* ranges found at the heads of the selections there were, in order; a
\* selection without an object is dropped, and when no selection has one
\* none of the old selections survives.
C33_SelectTextObject ==
    [][(SelectTextObject /\ result' = None) =>
          \E kind \in SelKinds, inn \in BOOLEAN :
              RangesOf(selections') = ObjectRanges(selections, content, kind, inn)
      ]_vars

\* What the manager does: the same when an object is found at some head;
\* when none is found the selections stay as they were.
C33_SelectionsKeptWhenNoneFound ==
    [][(SelectTextObject /\ result' = None) =>
          \E kind \in SelKinds, inn \in BOOLEAN :
              IF ObjectRanges(selections, content, kind, inn) # <<>>
              THEN /\ RangesOf(selections') =
                         ObjectRanges(selections, content, kind, inn)
                   /\ Primaries(selections') = {1}
              ELSE selections' = selections
      ]_vars
C33_OldSelectionsSurvive ==
    /\ last_call = "select_text_object" /\ result = None
    /\ selections_before # <<>>
    /\ NoObjectAt(selections_before, content)
    /\ selections = selections_before

\* No two selections of sels share an offset, and all lie inside the text.
Apart(sels) ==
    \A i, j \in 1..Len(sels) :
        i # j => (SelEnd(sels[i]) <= SelStart(sels[j])
                  \/ SelEnd(sels[j]) <= SelStart(sels[i]))
InsideText(sels, text) ==
    \A i \in 1..Len(sels) : 0 <= SelStart(sels[i]) /\ SelEnd(sels[i]) <= Len(text)
Slice(text, sel) == PySlice(text, SelStart(sel), SelEnd(sel))
\* Selection i of the call that returned r covers the transform of what it
\* covered before.
CoversTransformed(r, after, sels, i) ==
    Slice(r.text, after[i]) = Transform(r.transform, Slice(r.content, sels[i]))
\* No selection that starts before selection i has its length changed.
LengthsKeptBefore(f, text, sels, i) ==
    \A j \in 1..Len(sels) :
        SelStart(sels[j]) < SelStart(sels[i]) =>
            Len(Transform(f, Slice(text, sels[j]))) = Len(Slice(text, sels[j]))

\* C34: after apply_to_selections(text, f) on pairwise non-overlapping
\* selections the slice of the returned text between start and end of every
\* selection is f of the slice it covered before, for every transform f and
\* for forward and reversed selections.
C34_SelectionsCoverTransformed ==
    [][(ApplyToSelections /\ Apart(selections) /\ InsideText(selections, content)) =>
          \A i \in 1..Len(selections) :
              CoversTransformed(result', selections', selections, i)
      ]_vars

\* What the function does: the anchor and the offsets of the selections
\* behind an edit are left as they were, so the statement holds of a forward
\* selection before which no length changes.
C34_ForwardUnshiftedCover ==
    [][(ApplyToSelections /\ Apart(selections) /\ InsideText(selections, content)) =>
          \A i \in 1..Len(selections) :
              (/\ selections[i].anchor <= selections[i].head
               /\ LengthsKeptBefore(result'.transform, content, selections, i))
                 => CoversTransformed(result', selections', selections, i)
      ]_vars
C34_LaterSelectionStale ==
    /\ result = Applied("double", <<"a", "\n", "a">>,
                        <<"a", "a", "\n", "a", "a">>)
    /\ selections_before = <<Selection(0, 1, TRUE), Selection(2, 3, FALSE)>>
    /\ selections = <<Selection(0, 2, TRUE), Selection(2, 4, FALSE)>>

\* The selection a call has appended.
Added == selections'[Len(selections')]
CursorAdded == Len(selections') = Len(selections) + 1
PrimaryLine == LineOf(content, primary_selection(selections).head)

\* C35: after any sequence of MultiCursorManager operations on a fixed text,
\* starting with offsets inside the text, every anchor and head is within
\* 0..len(text); add_cursor_above and add_cursor_below never create a
\* negative offset or an offset on a line other than the adjacent one, also
\* when the adjacent line is empty.
C35_OffsetsInsideText ==
    /\ [](result.kind # "Applied" => InsideText(selections, content))
    /\ [][(AddCursorAbove /\ CursorAdded /\ InsideText(selections, content)) =>
             /\ Added.head >= 0
             /\ LineOf(content, Added.head) = PrimaryLine - 1]_vars
    /\ [][(AddCursorBelow /\ CursorAdded /\ InsideText(selections, content)) =>
             /\ Added.head >= 0
             /\ LineOf(content, Added.head) = PrimaryLine + 1]_vars

\* What the manager does: the column is clamped to the adjacent line's
\* length minus one, which for an empty adjacent line is the offset before
\* the line: -1 above the first line, the line of the primary itself below.
C35_OffsetsFromMinusOne ==
    /\ [][(AddCursorAbove /\ CursorAdded /\ InsideText(selections, content)) =>
             /\ Added.head >= -1
             /\ Added.head >= 0 =>
                   LineOf(content, Added.head) \in {PrimaryLine - 1, PrimaryLine - 2}]_vars
    /\ [][(AddCursorBelow /\ CursorAdded /\ InsideText(selections, content)) =>
             /\ Added.head >= 0
             /\ LineOf(content, Added.head) \in {PrimaryLine, PrimaryLine + 1}]_vars
C35_CursorBeforeText ==
    /\ last_call = "add_cursor_above"
    /\ content = <<"\n", "a", "a">>
    /\ InsideText(selections_before, content)
    /\ selections = Append(selections_before, Selection(-1, -1, FALSE))

(***************************************************************************)
(* Properties of merge_consecutive_selections, under SpecMerge.            *)
(***************************************************************************)
\* The offsets a selection set covers, a selection covering start..end-1.
Covered(sels) ==
    {o \in 0..Len(content) :
        \E i \in 1..Len(sels) : SelStart(sels[i]) <= o /\ o < SelEnd(sels[i])}
\* The selections of sels that lie inside the selection m.
PartsOf(m, sels) ==
    {i \in 1..Len(sels) :
        SelStart(m) <= SelStart(sels[i]) /\ SelEnd(sels[i]) <= SelEnd(m)}
SortedApart(sels) ==
    \A i \in 1..(Len(sels) - 1) :
        /\ SelStart(sels[i]) <= SelStart(sels[i + 1])
        /\ SelStart(sels[i + 1]) > SelEnd(sels[i])
PrimaryFromParts(after, sels) ==
    \A k \in 1..Len(after) :
        after[k].primary <=> \E i \in PartsOf(after[k], sels) : sels[i].primary
MergedTwice ==
    last_call = "merge_consecutive_selections" /\ Merge

\* C32: after merge_consecutive_selections on two or more selections the
\* selections are sorted by start, each next start is greater than the
\* previous end, the covered offsets are those covered before, a merged
\* selection is primary if and only if one of its parts was, and a second
\* call changes nothing.
C32_Merge ==
    [][/\ (Merge /\ Len(selections) >= 2) =>
             /\ SortedApart(selections')
             /\ Covered(selections') = Covered(selections)
             /\ PrimaryFromParts(selections', selections)
       /\ MergedTwice => selections' = selections
      ]_vars

\* What the manager does: the same, but with no primary among the
\* selections the first selection of the result is made primary.
C32_MergeEnsuresPrimary ==
    [][/\ (Merge /\ Len(selections) >= 2) =>
             /\ SortedApart(selections')
             /\ Covered(selections') = Covered(selections)
             /\ IF Primaries(selections) # {}
                THEN PrimaryFromParts(selections', selections)
                ELSE Primaries(selections') = {1}
       /\ MergedTwice => selections' = selections
      ]_vars
C32_PrimaryFromNone ==
    /\ last_call = "merge_consecutive_selections"
    /\ selections_before = <<Selection(0, 0, FALSE), Selection(2, 2, FALSE)>>
    /\ selections = <<Selection(0, 0, TRUE), Selection(2, 2, FALSE)>>

(***************************************************************************)
(* Properties of the SurroundManager, under SpecSurround                   *)
(***************************************************************************)
\* The arguments and the outcome of the call a step makes.
CallText == result'.content
CallRet == result'.ret
SurroundStep(op) == calls' = calls + 1 /\ last_call' = op
TheSelection == selections[1]
AroundBounds == find_object(CallText, TheSelection.head, obj_type, FALSE)

\* The text without the characters at the offsets s and e - 1.
RECURSIVE Keeping(_, _, _)
Keeping(text, offset, dropped) ==
    IF text = <<>> THEN <<>>
    ELSE (IF offset \in dropped THEN <<>> ELSE <<text[1]>>)
         \o Keeping(Tail(text), offset + 1, dropped)
WithoutDelimiters(text, s, e) == Keeping(text, 0, {s, e - 1})
\* text[:s] + new_open + text[s+1:e-1] + new_close + text[e:]
WithDelimiters(text, s, e, new_open, new_close) ==
    SubSeq(text, 1, s) \o <<new_open>> \o SubSeq(text, s + 2, e - 1)
        \o <<new_close>> \o SubSeq(text, e + 1, Len(text))
DeletedAs(found) ==
    /\ CallRet.kind = "Str"
    /\ found.kind # "Range" => CallRet.text = CallText
    /\ found.kind = "Range" =>
          CallRet.text = WithoutDelimiters(CallText, found.start, found.end)
ChangedAs(found, new_open, new_close) ==
    /\ CallRet.kind = "Str"
    /\ found.kind # "Range" => CallRet.text = CallText
    /\ found.kind = "Range" =>
          /\ CallRet.text = WithDelimiters(CallText, found.start, found.end,
                                           new_open, new_close)
          /\ SubSeq(CallRet.text, found.start + 2, found.end - 1)
                = SubSeq(CallText, found.start + 2, found.end - 1)

\* C36: delete_surround and change_surround return the text unchanged when no
\* enclosing pair of the (old) character is found around the selection head;
\* when the around bounds (s, e) are found, delete_surround returns the text
\* without the characters at s and e - 1, and change_surround returns
\* text[:s] + new_open + text[s+1:e-1] + new_close + text[e:], the inner
\* content kept verbatim.
C36_Surround ==
    /\ [][SurroundStep("delete_surround") => DeletedAs(AroundBounds)]_vars
    /\ [][SurroundStep("change_surround") =>
             ChangedAs(AroundBounds, SurroundChars(result'.char)[1],
                       SurroundChars(result'.char)[2])]_vars

\* What the code does: with the head at the end of the text and a pair or
\* quote character the scan reads past the text and the call raises; every
\* call that returns, returns what C36 says.
C36_SurroundUnlessRaised ==
    /\ [][(SurroundStep("delete_surround") /\ CallRet.kind # "Raise") =>
             DeletedAs(AroundBounds)]_vars
    /\ [][(SurroundStep("change_surround") /\ CallRet.kind # "Raise") =>
             ChangedAs(AroundBounds, SurroundChars(result'.char)[1],
                       SurroundChars(result'.char)[2])]_vars
    /\ [][(SurroundNext /\ CallRet.kind = "Raise") =>
             /\ TheSelection.head >= Len(CallText)
             /\ obj_type \in DOMAIN PAIRS]_vars
C36_RaisedOnEmptyText ==
    /\ result.kind = "Surrounded" /\ result.op = "delete_surround"
    /\ obj_type = "(" /\ result.content = <<>>
    /\ TheSelection = Selection(0, 0, TRUE)
    /\ result.ret = Raise("IndexError")

\* The characters with a known pair.
KnownPairs == {"(", "[", "{", "<", "\"", "'", Backtick}
\* The selection's content holds none of the pair's characters.
FreeOfPair(text, sel, char) ==
    \A i \in 1..Len(Slice(text, sel)) :
        Slice(text, sel)[i] \notin {SurroundChars(char)[1], SurroundChars(char)[2]}
\* The call before this one added the surround of obj_type to a text whose
\* selection is free of the pair, and this one deletes it.
DeletesTheAdded ==
    /\ result.kind = "Surrounded" /\ result.op = "add_surround"
    /\ result.char = obj_type /\ obj_type \in KnownPairs
    /\ FreeOfPair(result.content, TheSelection, obj_type)
    /\ SurroundStep("delete_surround")

\* C37: adding and then deleting a surround is a round trip: for every
\* surround character with a known pair and every selection whose content
\* holds none of the pair's characters,
\* delete_surround(add_surround(text, sel, ch), sel, ch) = text.
C37_RoundTrip ==
    [][DeletesTheAdded => CallRet = StrOf(result.content)]_vars

\* What the code does: the round trip holds for ( [ and {, and for a quote
\* when no backslash stands before the opening or the closing quote; the
\* angle brackets are never found, so the text keeps them.
EscapedQuote(text, sel) ==
    \/ SelStart(sel) > 0 /\ text[SelStart(sel)] = "\\"
    \/ SelEnd(sel) > 0 /\ text[SelEnd(sel)] = "\\"
C37_RoundTripUnescaped ==
    [][DeletesTheAdded =>
          IF obj_type = "<" THEN CallRet = StrOf(CallText)
          ELSE (obj_type \in {"(", "[", "{"}
                   \/ ~EscapedQuote(result.content, TheSelection))
                  => CallRet = StrOf(result.content)]_vars
C37_EscapedQuoteKept ==
    /\ result.kind = "Surrounded" /\ result.op = "delete_surround"
    /\ obj_type = "\"" /\ content = <<"\\", "a">>
    /\ TheSelection = Selection(1, 2, TRUE)
    /\ result.content = <<"\\", "\"", "a", "\"">>
    /\ result.ret = StrOf(result.content)

====
